---- MODULE Spec2Model ----
(***************************************************************************)
(* CollabDoc: a path-addressed JSON document replicated between a          *)
(* Socket.IO server (server/src/index.ts) and client replicas              *)
(* (sdk/src/collab-doc.ts) with per-path Last-Writer-Wins metadata, an     *)
(* offline queue and a pause/resume buffer.                                *)
(***************************************************************************)
EXTENDS Integers, Sequences, FiniteSets, TLC

(***************************************************************************)
(* JSON values.  Every value is a record of one shape, so that any two     *)
(* values can be compared:                                                 *)
(*   kind "obj"  : a mapping, m = its own properties (name -> value)       *)
(*   kind "arr"  : an array, a = its elements (a hole is Undefined), m =   *)
(*                 its non-index properties                                *)
(*   kind "num"  : a scalar, val = the number                              *)
(*   kind "null" : null;   kind "undef" : undefined / absent / array hole  *)
(***************************************************************************)
EmptyMap == [k \in {} |-> 0]

Obj(props) == [kind |-> "obj", val |-> 0, m |-> props, a |-> <<>>]

Arr(elems, props) == [kind |-> "arr", val |-> 0, m |-> props, a |-> elems]

Num(n) == [kind |-> "num", val |-> n, m |-> EmptyMap, a |-> <<>>]

Null == [kind |-> "null", val |-> 0, m |-> EmptyMap, a |-> <<>>]

Undefined == [kind |-> "undef", val |-> 0, m |-> EmptyMap, a |-> <<>>]

EmptyObject == Obj(EmptyMap)

EmptyArray == Arr(<<>>, EmptyMap)

\* typeof v === 'object' (true of null as well)
TypeofObject(v) == v.kind \in {"obj", "arr", "null"}

\* typeof v === 'object' && v !== null
IsContainer(v) == v.kind \in {"obj", "arr"}

IsArray(v) == v.kind = "arr"

(***************************************************************************)
(* Path segments: a string key or a number index (Path = (string|number)[])*)
(* String keys drawn in this model are never decimal numerals.             *)
(***************************************************************************)
S(name) == [num |-> FALSE, key |-> name, idx |-> 0]

N(i) == [num |-> TRUE, key |-> "", idx |-> i]

Digits == <<"0", "1", "2", "3", "4", "5", "6", "7", "8", "9">>

RECURSIVE NumberToString(_)
\* String(i) for a natural number i
NumberToString(i) ==
    IF i < 10 THEN Digits[i + 1]
    ELSE NumberToString(i \div 10) \o Digits[(i % 10) + 1]

\* the property name a segment addresses (ToPropertyKey)
PropKey(seg) == IF seg.num THEN NumberToString(seg.idx) ELSE seg.key

RECURSIVE JoinSegments(_)
JoinSegments(path) ==
    IF path = <<>> THEN ""
    ELSE LET seg == Head(path)
             txt == IF seg.num THEN NumberToString(seg.idx)
                    ELSE "\"" \o seg.key \o "\""
         IN IF Len(path) = 1 THEN txt ELSE txt \o "," \o JoinSegments(Tail(path))

\* JSON.stringify(path): the metadata key
StringifyPath(path) == "[" \o JoinSegments(path) \o "]"

(***************************************************************************)
(* Property access on a container.                                         *)
(***************************************************************************)
Put(f, k, v) == [j \in DOMAIN f \cup {k} |-> IF j = k THEN v ELSE f[j]]

Remove(f, k) == [j \in DOMAIN f \ {k} |-> f[j]]

\* cur.hasOwnProperty(seg) / (seg in cur), for a container cur
HasOwn(cur, seg) ==
    IF cur.kind = "arr" /\ seg.num
    THEN seg.idx < Len(cur.a) /\ cur.a[seg.idx + 1].kind # "undef"
    ELSE PropKey(seg) \in DOMAIN cur.m

\* cur[seg]
GetProp(cur, seg) ==
    IF ~IsContainer(cur) THEN Undefined
    ELSE IF cur.kind = "arr" /\ seg.num
    THEN IF seg.idx < Len(cur.a) THEN cur.a[seg.idx + 1] ELSE Undefined
    ELSE IF PropKey(seg) \in DOMAIN cur.m THEN cur.m[PropKey(seg)] ELSE Undefined

\* cur[seg] = v: an array grows, with holes, up to the index written
SetProp(cur, seg, v) ==
    IF cur.kind = "arr" /\ seg.num
    THEN LET n == IF seg.idx < Len(cur.a) THEN Len(cur.a) ELSE seg.idx + 1
         IN [cur EXCEPT !.a = [i \in 1..n |->
                                 IF i = seg.idx + 1 THEN v
                                 ELSE IF i <= Len(cur.a) THEN cur.a[i]
                                 ELSE Undefined]]
    ELSE [cur EXCEPT !.m = Put(cur.m, PropKey(seg), v)]

\* delete cur[seg]
DeleteProp(cur, seg) == [cur EXCEPT !.m = Remove(cur.m, PropKey(seg))]

\* a variant of the splice that clears the element and leaves a hole (as
\* delete cur[i] would), shifting nothing
SpliceLeavingHole(cur, i) ==
    [cur EXCEPT !.a = [j \in 1..Len(cur.a) |->
                         IF j = i + 1 THEN Undefined ELSE cur.a[j]]]

\* cur.splice(i, 1)
Splice(cur, i) ==
    [cur EXCEPT !.a = [j \in 1..(Len(cur.a) - 1) |->
                         IF j <= i THEN cur.a[j] ELSE cur.a[j + 1]]]

RECURSIVE JsonClone(_)
\* JSON.parse(JSON.stringify(v)): an array keeps its elements only and its
\* holes become null; a mapping drops its undefined properties
JsonClone(v) ==
    IF v.kind = "obj"
    THEN Obj([k \in {j \in DOMAIN v.m : v.m[j].kind # "undef"} |-> JsonClone(v.m[k])])
    ELSE IF v.kind = "arr"
    THEN Arr([i \in 1..Len(v.a) |->
                IF v.a[i].kind = "undef" THEN Null ELSE JsonClone(v.a[i])], EmptyMap)
    ELSE v

RECURSIVE get(_, _)
\* CollabDoc.get: the value at path, Undefined when absent
get(cur, path) ==
    IF path = <<>> THEN cur
    ELSE IF cur.kind = "null" \/ ~TypeofObject(cur) \/ ~HasOwn(cur, Head(path))
    THEN Undefined
    ELSE get(GetProp(cur, Head(path)), Tail(path))

(***************************************************************************)
(* Writer ids are strings; JavaScript's < on strings compares their UTF-16 *)
(* code units from the left, a proper prefix being the smaller.            *)
(***************************************************************************)
CodeUnits == [A |-> <<65>>, AB |-> <<65, 66>>, B |-> <<66>>]

RECURSIVE LexLess(_, _)
LexLess(s, t) ==
    IF t = <<>> THEN FALSE
    ELSE IF s = <<>> THEN TRUE
    ELSE IF s[1] # t[1] THEN s[1] < t[1]
    ELSE LexLess(Tail(s), Tail(t))

\* a < b on two writer ids
StringLess(a, b) == LexLess(CodeUnits[a], CodeUnits[b])

(***************************************************************************)
(* Operations, metadata records and events.                                *)
(***************************************************************************)
Operation(id, path, kind, value, timestamp, actorId, version) ==
    [id |-> id, path |-> path, op |-> kind, value |-> value,
     timestamp |-> timestamp, actorId |-> actorId, version |-> version]

MetadataOf(op) ==
    [timestamp |-> op.timestamp, actorId |-> op.actorId, version |-> op.version]

NoOperation == Operation(<<"", 0>>, <<>>, "none", Undefined, 0, "", 0)

\* emit('change', { path, action, value, isRemote })
ChangeEvent(op, isRemote) ==
    [ev |-> "change", path |-> op.path, action |-> op.op, value |-> op.value,
     isRemote |-> isRemote, reason |-> ""]

\* emit(name) and emit('disconnect', reason)
SignalEvent(name, reason) ==
    [ev |-> name, path |-> <<>>, action |-> "", value |-> Undefined,
     isRemote |-> FALSE, reason |-> reason]

(***************************************************************************)
(* The client's merge: CollabDoc.applyOperation.                           *)
(***************************************************************************)
\* a variant of incomingWins with the tie-break turned round (the larger writer
\* id wins)
ClientIncomingWinsTieLarger(existing, op) ==
    \/ op.timestamp > existing.timestamp
    \/ op.timestamp = existing.timestamp /\ StringLess(existing.actorId, op.actorId)

\* a variant of incomingWins in which, at equal timestamps, the higher version
\* wins as well
ClientIncomingWinsByVersion(existing, op) ==
    \/ op.timestamp > existing.timestamp
    \/ /\ op.timestamp = existing.timestamp
       /\ StringLess(op.actorId, existing.actorId) \/ op.version > existing.version

\* incomingWins of applyOperation
ClientIncomingWins(existing, op) ==
    LET incomingWinsByTimestamp == op.timestamp > existing.timestamp
        timestampsAreEqual == op.timestamp = existing.timestamp
        incomingWinsByActorId ==
            timestampsAreEqual /\ StringLess(op.actorId, existing.actorId)
    IN incomingWinsByTimestamp \/ incomingWinsByActorId

\* a variant of apply in which a local operation goes through the LWW
\* comparison as well
ClientAppliesLocalCompared(md, op, isRemote) ==
    LET pathKey == StringifyPath(op.path)
    IN ~(pathKey \in DOMAIN md /\ ~ClientIncomingWins(md[pathKey], op))

\* apply of applyOperation: a local operation always applies
ClientApplies(md, op, isRemote) ==
    LET pathKey == StringifyPath(op.path)
    IN ~(isRemote /\ pathKey \in DOMAIN md /\ ~ClientIncomingWins(md[pathKey], op))

RECURSIVE ClientWalk(_, _, _, _)
\* the walk and the terminal assignment of applyOperation, on a non-empty path;
\* done is FALSE when the code returns before its metadata update and its emit
ClientWalk(cur, path, action, value) ==
    IF Len(path) = 1
    THEN LET lastSegment == path[1]
         IN [done |-> TRUE,
             node |-> IF action = "set" THEN SetProp(cur, lastSegment, value)
                      ELSE IF IsArray(cur) /\ lastSegment.num
                      THEN IF lastSegment.idx < Len(cur.a)
                           THEN Splice(cur, lastSegment.idx) ELSE cur
                      ELSE IF IsContainer(cur) /\ HasOwn(cur, lastSegment)
                      THEN DeleteProp(cur, lastSegment)
                      ELSE cur]
    ELSE LET segment == path[1]
             child == GetProp(cur, segment)
             wrong == \/ ~HasOwn(cur, segment)
                      \/ child.kind = "null"
                      \/ ~TypeofObject(child)
                      \/ IsArray(child) # path[2].num
         IN IF ~IsContainer(cur) THEN [done |-> FALSE, node |-> cur]
            ELSE IF wrong /\ action = "del" THEN [done |-> FALSE, node |-> cur]
            ELSE LET fresh == IF path[2].num THEN EmptyArray ELSE EmptyObject
                     r == ClientWalk(IF wrong THEN fresh ELSE child,
                                     Tail(path), action, value)
                 IN [done |-> r.done, node |-> SetProp(cur, segment, r.node)]

\* a variant of applyOperation that skips the LWW decision: every operation is
\* written
applyOperationUndecided(d, md, op, isRemote) ==
    LET pathKey == StringifyPath(op.path)
        w == ClientWalk(d, op.path, op.op, op.value)
    IN IF ~w.done
       THEN [doc |-> w.node, metadata |-> md, events |-> <<>>]
       ELSE [doc |-> w.node,
             metadata |-> IF op.op = "del" THEN Remove(md, pathKey)
                          ELSE Put(md, pathKey, MetadataOf(op)),
             events |-> <<ChangeEvent(op, isRemote)>>]

\* CollabDoc.applyOperation(op, isRemote) on document d and metadata map md
applyOperation(d, md, op, isRemote) ==
    LET pathKey == StringifyPath(op.path)
        w == ClientWalk(d, op.path, op.op, op.value)
    IN IF ~ClientApplies(md, op, isRemote)
       THEN [doc |-> d, metadata |-> md, events |-> <<>>]
       ELSE IF ~w.done
       THEN [doc |-> w.node, metadata |-> md, events |-> <<>>]
       ELSE [doc |-> w.node,
             metadata |-> IF op.op = "del" THEN Remove(md, pathKey)
                          ELSE Put(md, pathKey, MetadataOf(op)),
             events |-> <<ChangeEvent(op, isRemote)>>]

(***************************************************************************)
(* The server's merge: socket.on('operation'), deepSet, deepDelete.        *)
(***************************************************************************)
\* a variant of incomingWins with the tie-break turned round (the larger writer
\* id wins)
ServerIncomingWinsTieLarger(existing, op) ==
    \/ op.timestamp > existing.timestamp
    \/ op.timestamp = existing.timestamp /\ StringLess(existing.actorId, op.actorId)

\* incomingWinsByTimestamp || incomingWinsByActorId of the server handler
ServerIncomingWins(existing, op) ==
    LET incomingWinsByTimestamp == op.timestamp > existing.timestamp
        timestampsAreEqual == op.timestamp = existing.timestamp
        incomingWinsByActorId ==
            timestampsAreEqual /\ StringLess(op.actorId, existing.actorId)
    IN ~(~incomingWinsByTimestamp /\ ~incomingWinsByActorId)

\* a variant of applyServerOp in which the server applies every operation
ServerAppliesAlways(md, op) == TRUE

\* applyServerOp
ServerApplies(md, op) ==
    LET pathKey == StringifyPath(op.path)
    IN ~(pathKey \in DOMAIN md /\ ~ServerIncomingWins(md[pathKey], op))

RECURSIVE deepSet(_, _, _)
deepSet(cur, path, value) ==
    IF Len(path) = 1 THEN SetProp(cur, path[1], value)
    ELSE LET key == path[1]
             child == GetProp(cur, key)
             wrong == ~HasOwn(cur, key) \/ ~TypeofObject(child) \/ child.kind = "null"
             fresh == IF path[2].num THEN EmptyArray ELSE EmptyObject
         IN SetProp(cur, key, deepSet(IF wrong THEN fresh ELSE child, Tail(path), value))

RECURSIVE deepDeleteCreating(_, _)
\* a variant of deepDelete that, like deepSet, puts a fresh container where an
\* intermediate segment is missing or holds no container
deepDeleteCreating(cur, path) ==
    IF Len(path) = 1
    THEN LET lastSegment == path[1]
         IN IF IsArray(cur) /\ lastSegment.num
            THEN IF lastSegment.idx < Len(cur.a)
                 THEN Splice(cur, lastSegment.idx) ELSE cur
            ELSE IF IsContainer(cur) /\ HasOwn(cur, lastSegment)
            THEN DeleteProp(cur, lastSegment)
            ELSE cur
    ELSE LET key == path[1]
             child == GetProp(cur, key)
             wrong == ~HasOwn(cur, key) \/ ~TypeofObject(child) \/ child.kind = "null"
             fresh == IF path[2].num THEN EmptyArray ELSE EmptyObject
         IN SetProp(cur, key,
                    deepDeleteCreating(IF wrong THEN fresh ELSE child, Tail(path)))

RECURSIVE deepDelete(_, _)
deepDelete(cur, path) ==
    IF Len(path) = 1
    THEN LET lastSegment == path[1]
         IN IF IsArray(cur) /\ lastSegment.num
            THEN IF lastSegment.idx < Len(cur.a)
                 THEN Splice(cur, lastSegment.idx) ELSE cur
            ELSE IF IsContainer(cur) /\ HasOwn(cur, lastSegment)
            THEN DeleteProp(cur, lastSegment)
            ELSE cur
    ELSE LET key == path[1]
             child == GetProp(cur, key)
         IN IF ~HasOwn(cur, key) \/ ~TypeofObject(child) \/ child.kind = "null"
            THEN cur
            ELSE SetProp(cur, key, deepDelete(child, Tail(path)))

\* the merge of socket.on('operation') on a room's document and metadata map
ServerMerge(d, md, op) ==
    LET pathKey == StringifyPath(op.path)
    IN IF ~ServerApplies(md, op) THEN [doc |-> d, metadata |-> md]
       ELSE [doc |-> IF op.op = "set" THEN deepSet(d, op.path, op.value)
                     ELSE IF op.op = "del" THEN deepDelete(d, op.path)
                     ELSE d,
             metadata |-> IF op.op = "del" THEN Remove(md, pathKey)
                          ELSE Put(md, pathKey, MetadataOf(op))]

(***************************************************************************)
(* Bounds of the model.                                                    *)
(***************************************************************************)
\* clock readings are 1..MaxTime
MaxTime == 2

\* written values are the numbers 1..MaxValue
MaxValue == 2

\* transport connects of one client
MaxConnects == 2

\* local operations of each of two clients editing the same room
MaxSharedOps == 1

\* local operations of a client that is alone in its room
MaxSoloOps == 2

\* local operations of a client that never connects
MaxOfflineOps == 3

Clients == {"A", "B"}

Rooms == {"r1", "r2"}

Times == 1..MaxTime

Values == {Num(n) : n \in 1..MaxValue}

\* the paths local edits address
Paths == {<<S("a")>>, <<S("a"), S("x")>>}

\* the same and an array index
ArrayPaths == Paths \cup {<<S("a"), N(0)>>}

Reasons == {"io client disconnect", "transport close"}

\* what the transport passes to the listeners of its error event
Errors == {"xhr poll error", "parse error"}

(***************************************************************************)
(* The runs explored: what each client's application and transport do at   *)
(* most (ops: local edits, connects: transport connects, live: whether the *)
(* application calls pause and resume, errors: whether the transport       *)
(* reports errors), the paths it edits and the values it writes, the room  *)
(* each client is constructed for, and whether the transport hands the     *)
(* client operation events of another room.                                *)
(***************************************************************************)
Scenario(opsA, opsB, connectsA, connectsB, liveB, errorsA, paths, values) ==
    [ops |-> [A |-> opsA, B |-> opsB],
     connects |-> [A |-> connectsA, B |-> connectsB],
     live |-> [A |-> TRUE, B |-> liveB],
     errors |-> [A |-> errorsA, B |-> FALSE],
     rooms |-> [A |-> "r1", B |-> "r1"],
     stray |-> [A |-> FALSE, B |-> FALSE],
     paths |-> paths,
     values |-> values]

\* two clients in one room, one edit each of the same key
Shared == Scenario(MaxSharedOps, MaxSharedOps, MaxConnects - 1, MaxConnects - 1,
                   FALSE, FALSE, {<<S("a")>>}, {Num(1)})

\* one client and the server, with a reconnect
Solo == Scenario(MaxSoloOps, 0, MaxConnects, 0, FALSE, TRUE, Paths, {Num(1)})

\* one client that never connects
Offline == Scenario(MaxOfflineOps, 0, 0, 0, FALSE, FALSE, ArrayPaths, Values)

\* two clients, each in a room of its own, one edit each; operation events of
\* the other room reach the first
Apart == [Shared EXCEPT !.rooms = [A |-> "r1", B |-> "r2"],
                        !.stray = [A |-> TRUE, B |-> FALSE]]

Scenarios == {Shared, Solo, Offline, Apart}

(***************************************************************************)
(* The state.                                                              *)
(***************************************************************************)
VARIABLES
    scenario,               \* the bounds of this run (never changes)
    roomId,                 \* CollabDoc.roomId, by client (fixed at construction)
    doc,                    \* CollabDoc.doc
    metadata,               \* CollabDoc.metadata: path key -> metadata record
    offlineQueue,           \* CollabDoc.offlineQueue
    connected,              \* CollabDoc.connected
    syncedWithServer,       \* CollabDoc.syncedWithServer
    isLiveMode,             \* CollabDoc.isLiveMode
    remoteOperationsBuffer, \* CollabDoc.remoteOperationsBuffer
    created,                \* operations each client has created (their ids)
    connects,               \* transport connects each client has had
    roomStates,             \* server: room id -> document (a partial map)
    roomMetadata,           \* server: room id -> metadata map (a partial map)
    members,                \* server: room id -> the sockets joined to it
    toServer,               \* messages in flight, client -> server, by client
    toClient,               \* messages in flight, server -> client, by client
    dispatched,             \* ids of the operations each client has sent, in order
    step,                   \* the handler that ran last, what it emitted and sent
    lost,                   \* whether a message in flight or a broadcast was missed
    lab,                    \* two replicas merging a pool of operations (SpecMerge)
    bench                   \* one replica merging a sequence of operations (SpecApply)

clientVars == <<doc, metadata, offlineQueue, connected, syncedWithServer,
                isLiveMode, remoteOperationsBuffer, created, connects>>

serverVars == <<roomStates, roomMetadata, members>>

systemVars == <<scenario, roomId, clientVars, serverVars, toServer, toClient, dispatched,
                step, lost>>

vars == <<systemVars, lab, bench>>

(***************************************************************************)
(* Messages of the transport boundary.  conn names the connection (the     *)
(* socket) a client message was sent on.                                   *)
(***************************************************************************)
JoinRoomMsg(room, conn) ==
    [type |-> "join_room", room |-> room, op |-> NoOperation, doc |-> Undefined,
     metadata |-> EmptyMap, conn |-> conn]

\* the operation as the transport serializes it
OperationMsg(room, op, conn) ==
    [type |-> "operation", room |-> room, op |-> [op EXCEPT !.value = JsonClone(op.value)],
     doc |-> Undefined, metadata |-> EmptyMap, conn |-> conn]

\* a variant of the initial state message that carries the Document only
InitialStateMsgWithoutMetadata(d, md) ==
    [type |-> "initial_state", room |-> "", op |-> NoOperation, doc |-> JsonClone(d),
     metadata |-> EmptyMap, conn |-> 0]

\* socket.emit('initial_state', currentDocState, currentMetadata)
InitialStateMsg(d, md) ==
    [type |-> "initial_state", room |-> "", op |-> NoOperation, doc |-> JsonClone(d),
     metadata |-> md, conn |-> 0]

\* what a replica held when a handler was entered
Before(d, md, queue, buffer) ==
    [doc |-> d, metadata |-> md, offlineQueue |-> queue,
     remoteOperationsBuffer |-> buffer]

ClientBefore(c) ==
    Before(doc[c], metadata[c], offlineQueue[c], remoteOperationsBuffer[c])

NoBefore == Before(EmptyObject, EmptyMap, <<>>, <<>>)

\* the effects of a handler in program order: "emit <event>" for each listener
\* notification and "send <message type>" for each socket.emit
Emits(events) == [i \in 1..Len(events) |-> "emit " \o events[i].ev]

Sends(sent) == [i \in 1..Len(sent) |-> "send " \o sent[i].type]

\* the handler that ran last: whose it was, the operation it handled, what the
\* replica held on entry, the events it emitted, the messages it sent, and the
\* two in program order (a handler emits, then sends, unless it says otherwise);
\* arg is the string the transport passed to the handler (the reason of a
\* disconnect, the payload of an error, the room id of an operation), "" for
\* the other handlers
Step(who, handler, op, before, events, sent) ==
    [who |-> who, handler |-> handler, op |-> op, before |-> before,
     events |-> events, sent |-> sent, effects |-> Emits(events) \o Sends(sent),
     arg |-> ""]

\* socket.emit('operation', this.roomId, op) for each op of ops, in order
SendAll(c, ops) == [i \in 1..Len(ops) |-> OperationMsg(roomId[c], ops[i], connects[c])]

\* the record of those calls: the ids of ops join the ids client c has sent
Dispatch(c, ops) == [dispatched EXCEPT ![c] = @ \o [i \in 1..Len(ops) |-> ops[i].id]]

(***************************************************************************)
(* Client: construction.                                                   *)
(***************************************************************************)
InitSystem ==
    /\ roomId = scenario.rooms
    /\ doc = [c \in Clients |-> EmptyObject]
    /\ metadata = [c \in Clients |-> EmptyMap]
    /\ offlineQueue = [c \in Clients |-> <<>>]
    /\ connected = [c \in Clients |-> FALSE]
    /\ syncedWithServer = [c \in Clients |-> FALSE]
    /\ isLiveMode = [c \in Clients |-> TRUE]
    /\ remoteOperationsBuffer = [c \in Clients |-> <<>>]
    /\ created = [c \in Clients |-> 0]
    /\ connects = [c \in Clients |-> 0]
    /\ roomStates = EmptyMap
    /\ roomMetadata = EmptyMap
    /\ members = [r \in Rooms |-> {}]
    /\ toServer = [c \in Clients |-> <<>>]
    /\ toClient = [c \in Clients |-> <<>>]
    /\ dispatched = [c \in Clients |-> <<>>]
    /\ step = Step("", "init", NoOperation, NoBefore, <<>>, <<>>)
    /\ lost = FALSE

NoMetadata == [timestamp |-> 0, actorId |-> "", version |-> 0]

\* the merge laboratory before any operation is drawn
LabStart(kinds) ==
    [kind |-> kinds, ops |-> {}, doc |-> <<EmptyObject, EmptyObject>>,
     metadata |-> <<EmptyMap, EmptyMap>>, order |-> <<<<>>, <<>>>>,
     last |-> [replica |-> 0, op |-> NoOperation, had |-> FALSE,
               existing |-> NoMetadata, client |-> FALSE, server |-> FALSE]]

\* the merge bench before any operation is merged
BenchStart(kind) ==
    [kind |-> kind, doc |-> EmptyObject, metadata |-> EmptyMap, merged |-> 0,
     last |-> [op |-> NoOperation,
               before |-> [doc |-> EmptyObject, metadata |-> EmptyMap],
               client |-> [doc |-> EmptyObject, metadata |-> EmptyMap],
               server |-> [doc |-> EmptyObject, metadata |-> EmptyMap],
               events |-> <<>>,
               again |-> [doc |-> EmptyObject, metadata |-> EmptyMap]]]

Init ==
    /\ scenario \in Scenarios
    /\ InitSystem
    /\ lab = LabStart(<<"client", "server">>)
    /\ bench = BenchStart("client")

(***************************************************************************)
(* Client: dispatch and flush.                                             *)
(***************************************************************************)
\* a variant of queueOrSendOperation without the live-mode test
queueOrSendOperationIgnoringPause(c, op) ==
    IF connected[c] /\ syncedWithServer[c]
    THEN [queue |-> offlineQueue[c], sent |-> <<op>>]
    ELSE [queue |-> Append(offlineQueue[c], op), sent |-> <<>>]

\* a variant of queueOrSendOperation that queues every operation
queueOrSendOperationAlwaysQueueing(c, op) ==
    [queue |-> Append(offlineQueue[c], op), sent |-> <<>>]

\* CollabDoc.queueOrSendOperation: the queue afterwards and the operations sent
queueOrSendOperation(c, op) ==
    IF ~isLiveMode[c]
    THEN [queue |-> Append(offlineQueue[c], op), sent |-> <<>>]
    ELSE IF connected[c] /\ syncedWithServer[c]
    THEN [queue |-> offlineQueue[c], sent |-> <<op>>]
    ELSE [queue |-> Append(offlineQueue[c], op), sent |-> <<>>]

\* a variant of processOfflineQueue that sends the newest operation first
processOfflineQueueNewestFirst(isConnected, isSynced, queue) ==
    IF isConnected /\ isSynced /\ Len(queue) > 0
    THEN [queue |-> <<>>, sent |-> [i \in 1..Len(queue) |-> queue[Len(queue) + 1 - i]]]
    ELSE [queue |-> queue, sent |-> <<>>]

\* a variant of processOfflineQueue that leaves the sent operations in the queue
processOfflineQueueKeeping(isConnected, isSynced, queue) ==
    IF isConnected /\ isSynced /\ Len(queue) > 0
    THEN [queue |-> queue, sent |-> queue]
    ELSE [queue |-> queue, sent |-> <<>>]

\* CollabDoc.processOfflineQueue, with the flags as the caller has set them
processOfflineQueue(isConnected, isSynced, queue) ==
    IF isConnected /\ isSynced /\ Len(queue) > 0
    THEN [queue |-> <<>>, sent |-> queue]
    ELSE [queue |-> queue, sent |-> <<>>]

\* a variant of initializeMetadata that starts from an empty metadata map
initializeMetadataEmpty(initialMetadata) == EmptyMap

\* CollabDoc.initializeMetadata: JSON.parse(JSON.stringify(initialMetadata))
initializeMetadata(initialMetadata) ==
    [pathKey \in DOMAIN initialMetadata |->
        [timestamp |-> initialMetadata[pathKey].timestamp,
         actorId |-> initialMetadata[pathKey].actorId,
         version |-> initialMetadata[pathKey].version]]

\* a variant of the version lookup that never finds an entry
ExistingVersionNone(md, path) == 0

\* CollabDoc.getMetadata(path)?.version || 0
ExistingVersion(md, path) ==
    IF StringifyPath(path) \in DOMAIN md THEN md[StringifyPath(path)].version ELSE 0

(***************************************************************************)
(* Client: local edits.                                                    *)
(***************************************************************************)
\* the body shared by CollabDoc.set and CollabDoc.delete
LocalEdit(c, handler, path, kind, value, now) ==
    LET op == Operation(<<c, created[c] + 1>>, path, kind, value, now, c,
                        ExistingVersion(metadata[c], path) + 1)
        r == applyOperation(doc[c], metadata[c], op, FALSE)
        q == queueOrSendOperation(c, op)
    IN /\ created[c] < scenario.ops[c]
       /\ created' = [created EXCEPT ![c] = @ + 1]
       /\ doc' = [doc EXCEPT ![c] = r.doc]
       /\ metadata' = [metadata EXCEPT ![c] = r.metadata]
       /\ offlineQueue' = [offlineQueue EXCEPT ![c] = q.queue]
       /\ toServer' = [toServer EXCEPT ![c] = @ \o SendAll(c, q.sent)]
       /\ dispatched' = Dispatch(c, q.sent)
       /\ step' = Step(c, handler, op, ClientBefore(c), r.events, SendAll(c, q.sent))
       /\ UNCHANGED <<lab, bench, scenario, roomId, connected, syncedWithServer, isLiveMode,
                      remoteOperationsBuffer, connects, serverVars, toClient, lost>>

\* CollabDoc.set(path, value) at clock reading now
Set(c) ==
    \E path \in scenario.paths, value \in scenario.values, now \in Times :
        LocalEdit(c, "set", path, "set", value, now)

\* CollabDoc.delete(path) at clock reading now
Delete(c) ==
    \E path \in scenario.paths, now \in Times :
        LocalEdit(c, "delete", path, "del", Undefined, now)

(***************************************************************************)
(* Client: transport events.                                               *)
(***************************************************************************)
\* a variant of the connect handler that also sends the Offline Queue when
\* the replica holds a synced flag
OnConnectFlushing(c) ==
    LET q == processOfflineQueue(TRUE, syncedWithServer[c], offlineQueue[c])
        sent == <<JoinRoomMsg(roomId[c], connects[c] + 1)>> \o SendAll(c, q.sent)
    IN /\ ~connected[c]
       /\ connects[c] < scenario.connects[c]
       /\ connects' = [connects EXCEPT ![c] = @ + 1]
       /\ connected' = [connected EXCEPT ![c] = TRUE]
       /\ offlineQueue' = [offlineQueue EXCEPT ![c] = q.queue]
       /\ toServer' = [toServer EXCEPT ![c] = @ \o sent]
       /\ dispatched' = Dispatch(c, q.sent)
       /\ step' = Step(c, "connect", NoOperation, ClientBefore(c),
                       <<SignalEvent("connect", "")>>, sent)
       /\ UNCHANGED <<lab, bench, scenario, roomId, doc, metadata, syncedWithServer, isLiveMode,
                      remoteOperationsBuffer, created, serverVars, toClient, lost>>

\* socket.on('connect')
OnConnect(c) ==
    /\ ~connected[c]
    /\ connects[c] < scenario.connects[c]
    /\ connects' = [connects EXCEPT ![c] = @ + 1]
    /\ connected' = [connected EXCEPT ![c] = TRUE]
    /\ toServer' = [toServer EXCEPT ![c] = Append(@, JoinRoomMsg(roomId[c], connects[c] + 1))]
    /\ step' = Step(c, "connect", NoOperation, ClientBefore(c),
                    <<SignalEvent("connect", "")>>,
                    <<JoinRoomMsg(roomId[c], connects[c] + 1)>>)
    /\ UNCHANGED <<lab, bench, dispatched, scenario, roomId, doc, metadata, offlineQueue, syncedWithServer, isLiveMode,
                   remoteOperationsBuffer, created, serverVars, toClient, lost>>

\* a variant of the disconnect handler that also empties the Remote Buffer
OnDisconnectDroppingBuffer(c) ==
    \E reason \in Reasons, reaches \in BOOLEAN :
        /\ connected[c]
        /\ connected' = [connected EXCEPT ![c] = FALSE]
        /\ remoteOperationsBuffer' = [remoteOperationsBuffer EXCEPT ![c] = <<>>]
        /\ members' = [r \in Rooms |-> members[r] \ {c}]
        /\ toClient' = [toClient EXCEPT ![c] = <<>>]
        /\ toServer' = [toServer EXCEPT ![c] = IF reaches THEN @ ELSE <<>>]
        /\ lost' = (lost \/ toClient[c] # <<>> \/ (~reaches /\ toServer[c] # <<>>))
        /\ step' = [Step(c, "disconnect", NoOperation, ClientBefore(c),
                         <<SignalEvent("disconnect", reason)>>, <<>>)
                    EXCEPT !.arg = reason]
        /\ UNCHANGED <<lab, bench, dispatched, scenario, roomId, doc, metadata, offlineQueue, syncedWithServer,
                       isLiveMode, created, connects, roomStates, roomMetadata>>

\* socket.on('disconnect'): the socket leaves its rooms, what the server had sent
\* to it is dropped, and what it had sent may or may not reach the server
OnDisconnect(c) ==
    \E reason \in Reasons, reaches \in BOOLEAN :
        /\ connected[c]
        /\ connected' = [connected EXCEPT ![c] = FALSE]
        /\ members' = [r \in Rooms |-> members[r] \ {c}]
        /\ toClient' = [toClient EXCEPT ![c] = <<>>]
        /\ toServer' = [toServer EXCEPT ![c] = IF reaches THEN @ ELSE <<>>]
        /\ lost' = (lost \/ toClient[c] # <<>> \/ (~reaches /\ toServer[c] # <<>>))
        /\ step' = [Step(c, "disconnect", NoOperation, ClientBefore(c),
                         <<SignalEvent("disconnect", reason)>>, <<>>)
                    EXCEPT !.arg = reason]
        /\ UNCHANGED <<lab, bench, dispatched, scenario, roomId, doc, metadata, offlineQueue, syncedWithServer,
                       isLiveMode, remoteOperationsBuffer, created, connects,
                       roomStates, roomMetadata>>

\* a variant of the error handler that treats the error as a disconnect
OnErrorDisconnecting(c) ==
    \E err \in Errors :
        /\ scenario.errors[c]
        /\ connected' = [connected EXCEPT ![c] = FALSE]
        /\ step' = [Step(c, "error", NoOperation, ClientBefore(c),
                         <<SignalEvent("error", err)>>, <<>>)
                    EXCEPT !.arg = err]
        /\ UNCHANGED <<lab, bench, dispatched, scenario, roomId, doc, metadata, offlineQueue, syncedWithServer,
                       isLiveMode, remoteOperationsBuffer, created, connects, serverVars,
                       toServer, toClient, lost>>

\* socket.on('error'): the payload goes to the listeners of error
OnError(c) ==
    \E err \in Errors :
        /\ scenario.errors[c]
        /\ step' = [Step(c, "error", NoOperation, ClientBefore(c),
                         <<SignalEvent("error", err)>>, <<>>)
                    EXCEPT !.arg = err]
        /\ UNCHANGED <<lab, bench, dispatched, scenario, roomId, clientVars, serverVars,
                       toServer, toClient, lost>>

\* socket.on('initial_state')
OnInitialState(c) ==
    /\ toClient[c] # <<>>
    /\ Head(toClient[c]).type = "initial_state"
    /\ LET msg == Head(toClient[c])
           q == processOfflineQueue(connected[c], TRUE, offlineQueue[c])
       IN /\ doc' = [doc EXCEPT ![c] = JsonClone(msg.doc)]
          /\ metadata' = [metadata EXCEPT ![c] = initializeMetadata(msg.metadata)]
          /\ syncedWithServer' = [syncedWithServer EXCEPT ![c] = TRUE]
          /\ offlineQueue' = [offlineQueue EXCEPT ![c] = q.queue]
          /\ toServer' = [toServer EXCEPT ![c] = @ \o SendAll(c, q.sent)]
          /\ dispatched' = Dispatch(c, q.sent)
          /\ toClient' = [toClient EXCEPT ![c] = Tail(@)]
          /\ step' = Step(c, "initial_state", NoOperation, ClientBefore(c),
                          <<SignalEvent("synced", "")>>, SendAll(c, q.sent))
    /\ UNCHANGED <<lab, bench, scenario, roomId, connected, isLiveMode, remoteOperationsBuffer, created,
                   connects, serverVars, lost>>

\* offlineQueue.findIndex(queuedOp => queuedOp.id === op.id), 0 for -1
IndexInQueue(queue, op) ==
    IF \E i \in 1..Len(queue) : queue[i].id = op.id
    THEN CHOOSE i \in 1..Len(queue) :
            /\ queue[i].id = op.id
            /\ \A j \in 1..(i - 1) : queue[j].id # op.id
    ELSE 0

\* offlineQueue.splice(i, 1), i counted from 1
WithoutIndex(queue, i) ==
    [j \in 1..(Len(queue) - 1) |-> IF j < i THEN queue[j] ELSE queue[j + 1]]

\* a variant of applyRemoteOperation without the live-mode test
applyRemoteOperationIgnoringPause(c, op) ==
    LET indexInQueue == IndexInQueue(offlineQueue[c], op)
        r == applyOperation(doc[c], metadata[c], op, TRUE)
    IN IF indexInQueue # 0
       THEN [doc |-> doc[c], metadata |-> metadata[c],
             queue |-> WithoutIndex(offlineQueue[c], indexInQueue),
             buffer |-> remoteOperationsBuffer[c], events |-> <<>>]
       ELSE [doc |-> r.doc, metadata |-> r.metadata, queue |-> offlineQueue[c],
             buffer |-> remoteOperationsBuffer[c], events |-> r.events]

\* CollabDoc.applyRemoteOperation
applyRemoteOperation(c, op) ==
    LET indexInQueue == IndexInQueue(offlineQueue[c], op)
        r == applyOperation(doc[c], metadata[c], op, TRUE)
    IN IF indexInQueue # 0
       THEN [doc |-> doc[c], metadata |-> metadata[c],
             queue |-> WithoutIndex(offlineQueue[c], indexInQueue),
             buffer |-> remoteOperationsBuffer[c], events |-> <<>>]
       ELSE IF ~isLiveMode[c]
       THEN [doc |-> doc[c], metadata |-> metadata[c], queue |-> offlineQueue[c],
             buffer |-> Append(remoteOperationsBuffer[c], op), events |-> <<>>]
       ELSE [doc |-> r.doc, metadata |-> r.metadata, queue |-> offlineQueue[c],
             buffer |-> remoteOperationsBuffer[c], events |-> r.events]

\* the transport hands client c an operation event that names another room:
\* a copy of an operation message on its way to the server from a client of
\* that room (the handler's roomId argument is whatever the peer emitted)
StrayOperation(c) ==
    /\ scenario.stray[c]
    /\ connected[c]
    /\ \E other \in Clients \ {c} : \E i \in 1..Len(toServer[other]) :
          LET msg == toServer[other][i]
          IN /\ msg.type = "operation"
             /\ msg.room # roomId[c]
             /\ \A j \in 1..Len(toClient[c]) : toClient[c][j].op.id # msg.op.id
             /\ toClient' = [toClient EXCEPT ![c] = Append(@, OperationMsg(msg.room, msg.op, 0))]
    /\ step' = Step("transport", "stray", NoOperation, NoBefore, <<>>, <<>>)
    /\ UNCHANGED <<lab, bench, dispatched, scenario, roomId, clientVars, serverVars, toServer, lost>>

\* a variant of the operation handler without the test of the room id
OnOperationOfAnyRoom(c) ==
    /\ toClient[c] # <<>>
    /\ Head(toClient[c]).type = "operation"
    /\ LET msg == Head(toClient[c])
           r == applyRemoteOperation(c, msg.op)
       IN /\ doc' = [doc EXCEPT ![c] = r.doc]
          /\ metadata' = [metadata EXCEPT ![c] = r.metadata]
          /\ offlineQueue' = [offlineQueue EXCEPT ![c] = r.queue]
          /\ remoteOperationsBuffer' = [remoteOperationsBuffer EXCEPT ![c] = r.buffer]
          /\ step' = [Step(c, "operation", msg.op, ClientBefore(c), r.events, <<>>)
                      EXCEPT !.arg = msg.room]
    /\ toClient' = [toClient EXCEPT ![c] = Tail(@)]
    /\ UNCHANGED <<lab, bench, dispatched, scenario, roomId, connected, syncedWithServer, isLiveMode, created, connects,
                   serverVars, toServer, lost>>

\* socket.on('operation')
OnOperation(c) ==
    /\ toClient[c] # <<>>
    /\ Head(toClient[c]).type = "operation"
    /\ LET msg == Head(toClient[c])
           r == applyRemoteOperation(c, msg.op)
       IN IF msg.room = roomId[c]
          THEN /\ doc' = [doc EXCEPT ![c] = r.doc]
               /\ metadata' = [metadata EXCEPT ![c] = r.metadata]
               /\ offlineQueue' = [offlineQueue EXCEPT ![c] = r.queue]
               /\ remoteOperationsBuffer' = [remoteOperationsBuffer EXCEPT ![c] = r.buffer]
               /\ step' = [Step(c, "operation", msg.op, ClientBefore(c), r.events, <<>>)
                           EXCEPT !.arg = msg.room]
          ELSE /\ UNCHANGED <<doc, metadata, offlineQueue, remoteOperationsBuffer>>
               /\ step' = [Step(c, "operation", msg.op, ClientBefore(c), <<>>, <<>>)
                           EXCEPT !.arg = msg.room]
    /\ toClient' = [toClient EXCEPT ![c] = Tail(@)]
    /\ UNCHANGED <<lab, bench, dispatched, scenario, roomId, connected, syncedWithServer, isLiveMode, created, connects,
                   serverVars, toServer, lost>>

(***************************************************************************)
(* Client: live mode.                                                      *)
(***************************************************************************)
\* a variant of pause without the test of the live flag
PauseAlwaysEmits(c) ==
    /\ scenario.live[c]
    /\ isLiveMode' = [isLiveMode EXCEPT ![c] = FALSE]
    /\ step' = Step(c, "pause", NoOperation, ClientBefore(c),
                    <<SignalEvent("pause", "")>>, <<>>)
    /\ UNCHANGED <<lab, bench, dispatched, scenario, roomId, doc, metadata, offlineQueue, connected, syncedWithServer,
                   remoteOperationsBuffer, created, connects, serverVars, toServer,
                   toClient, lost>>

\* CollabDoc.pause
Pause(c) ==
    /\ scenario.live[c]
    /\ isLiveMode' = [isLiveMode EXCEPT ![c] = FALSE]
    /\ step' = Step(c, "pause", NoOperation, ClientBefore(c),
                    IF isLiveMode[c] THEN <<SignalEvent("pause", "")>> ELSE <<>>, <<>>)
    /\ UNCHANGED <<lab, bench, dispatched, scenario, roomId, doc, metadata, offlineQueue, connected, syncedWithServer,
                   remoteOperationsBuffer, created, connects, serverVars, toServer,
                   toClient, lost>>

RECURSIVE ReplayBufferNewestFirst(_, _, _)
\* a variant of the while loop of resume that takes the newest entry first
ReplayBufferNewestFirst(d, md, buffer) ==
    IF buffer = <<>> THEN [doc |-> d, metadata |-> md, events |-> <<>>]
    ELSE LET r == applyOperation(d, md, buffer[Len(buffer)], TRUE)
             rest == ReplayBufferNewestFirst(r.doc, r.metadata,
                                             SubSeq(buffer, 1, Len(buffer) - 1))
         IN [doc |-> rest.doc, metadata |-> rest.metadata,
             events |-> r.events \o rest.events]

RECURSIVE ReplayBuffer(_, _, _)
\* the while loop of resume: each buffered operation merged in arrival order
ReplayBuffer(d, md, buffer) ==
    IF buffer = <<>> THEN [doc |-> d, metadata |-> md, events |-> <<>>]
    ELSE LET r == applyOperation(d, md, Head(buffer), TRUE)
             rest == ReplayBuffer(r.doc, r.metadata, Tail(buffer))
         IN [doc |-> rest.doc, metadata |-> rest.metadata,
             events |-> r.events \o rest.events]

\* CollabDoc.resume
Resume(c) ==
    LET r == ReplayBuffer(doc[c], metadata[c], remoteOperationsBuffer[c])
        q == processOfflineQueue(connected[c], syncedWithServer[c], offlineQueue[c])
    IN /\ scenario.live[c]
       /\ IF ~isLiveMode[c]
          THEN /\ isLiveMode' = [isLiveMode EXCEPT ![c] = TRUE]
               /\ doc' = [doc EXCEPT ![c] = r.doc]
               /\ metadata' = [metadata EXCEPT ![c] = r.metadata]
               /\ remoteOperationsBuffer' = [remoteOperationsBuffer EXCEPT ![c] = <<>>]
               /\ offlineQueue' = [offlineQueue EXCEPT ![c] = q.queue]
               /\ toServer' = [toServer EXCEPT ![c] = @ \o SendAll(c, q.sent)]
               /\ dispatched' = Dispatch(c, q.sent)
               /\ step' = [Step(c, "resume", NoOperation, ClientBefore(c),
                                r.events \o <<SignalEvent("resume", "")>>,
                                SendAll(c, q.sent))
                           EXCEPT !.effects = Emits(r.events) \o Sends(SendAll(c, q.sent))
                                              \o <<"emit resume">>]
               /\ UNCHANGED <<lab, bench, scenario, roomId, connected, syncedWithServer, created,
                              connects, serverVars, toClient, lost>>
          ELSE /\ step' = Step(c, "resume", NoOperation, ClientBefore(c), <<>>, <<>>)
               /\ UNCHANGED <<lab, bench, dispatched, scenario, roomId, clientVars, serverVars, toServer,
                              toClient, lost>>

(***************************************************************************)
(* Server.                                                                 *)
(***************************************************************************)
\* roomStates.get(roomId) || {}
RoomState(room) == IF room \in DOMAIN roomStates THEN roomStates[room] ELSE EmptyObject

\* roomMetadata.get(roomId) || {}
RoomMeta(room) == IF room \in DOMAIN roomMetadata THEN roomMetadata[room] ELSE EmptyMap

\* socket.on('join_room'); a socket that has closed since joins nothing and is
\* sent nothing
ServerJoinRoom(c) ==
    /\ toServer[c] # <<>>
    /\ Head(toServer[c]).type = "join_room"
    /\ LET msg == Head(toServer[c])
           open == connected[c] /\ msg.conn = connects[c]
       IN /\ members' = [members EXCEPT ![msg.room] = IF open THEN @ \cup {c} ELSE @]
          /\ roomStates' = Put(roomStates, msg.room, RoomState(msg.room))
          /\ roomMetadata' = Put(roomMetadata, msg.room, RoomMeta(msg.room))
          /\ toClient' = [toClient EXCEPT ![c] =
                            IF open
                            THEN Append(@, InitialStateMsg(RoomState(msg.room),
                                                           RoomMeta(msg.room)))
                            ELSE @]
          /\ step' = Step("server", "join_room", NoOperation,
                          Before(RoomState(msg.room), RoomMeta(msg.room), <<>>, <<>>),
                          <<>>, <<>>)
    /\ toServer' = [toServer EXCEPT ![c] = Tail(@)]
    /\ UNCHANGED <<lab, bench, dispatched, scenario, roomId, clientVars, lost>>

\* a variant of the server handler that broadcasts only what it applied
ServerOperationBroadcastsApplied(c) ==
    /\ toServer[c] # <<>>
    /\ Head(toServer[c]).type = "operation"
    /\ LET msg == Head(toServer[c])
           r == ServerMerge(RoomState(msg.room), RoomMeta(msg.room), msg.op)
           applied == ServerApplies(RoomMeta(msg.room), msg.op)
       IN /\ roomStates' = IF applied \/ msg.room \in DOMAIN roomStates
                           THEN Put(roomStates, msg.room, r.doc) ELSE roomStates
          /\ roomMetadata' = IF applied \/ msg.room \in DOMAIN roomMetadata
                             THEN Put(roomMetadata, msg.room, r.metadata)
                             ELSE roomMetadata
          /\ toClient' = [m \in Clients |->
                            IF applied /\ m \in members[msg.room]
                            THEN Append(toClient[m], OperationMsg(msg.room, msg.op, 0))
                            ELSE toClient[m]]
          /\ lost' = (lost \/ \E m \in Clients :
                                 roomId[m] = msg.room /\ m \notin members[msg.room])
          /\ step' = [Step("server", "operation", msg.op,
                           Before(RoomState(msg.room), RoomMeta(msg.room), <<>>, <<>>),
                           <<>>, <<>>)
                      EXCEPT !.arg = msg.room]
    /\ toServer' = [toServer EXCEPT ![c] = Tail(@)]
    /\ UNCHANGED <<lab, bench, dispatched, scenario, roomId, clientVars, members>>

\* socket.on('operation'): merge, then io.to(roomId).emit('operation', roomId, operation)
ServerOperation(c) ==
    /\ toServer[c] # <<>>
    /\ Head(toServer[c]).type = "operation"
    /\ LET msg == Head(toServer[c])
           r == ServerMerge(RoomState(msg.room), RoomMeta(msg.room), msg.op)
           applied == ServerApplies(RoomMeta(msg.room), msg.op)
       IN /\ roomStates' = IF applied \/ msg.room \in DOMAIN roomStates
                           THEN Put(roomStates, msg.room, r.doc) ELSE roomStates
          /\ roomMetadata' = IF applied \/ msg.room \in DOMAIN roomMetadata
                             THEN Put(roomMetadata, msg.room, r.metadata)
                             ELSE roomMetadata
          /\ toClient' = [m \in Clients |->
                            IF m \in members[msg.room]
                            THEN Append(toClient[m], OperationMsg(msg.room, msg.op, 0))
                            ELSE toClient[m]]
          /\ lost' = (lost \/ \E m \in Clients :
                                 roomId[m] = msg.room /\ m \notin members[msg.room])
          /\ step' = [Step("server", "operation", msg.op,
                           Before(RoomState(msg.room), RoomMeta(msg.room), <<>>, <<>>),
                           <<>>, <<>>)
                      EXCEPT !.arg = msg.room]
    /\ toServer' = [toServer EXCEPT ![c] = Tail(@)]
    /\ UNCHANGED <<lab, bench, dispatched, scenario, roomId, clientVars, members>>

(***************************************************************************)
(* The system: clients, server and transport.                              *)
(***************************************************************************)
\* the calls of the applications and the handlers of the clients and of the
\* server
NextHandlers ==
    \E c \in Clients :
        \/ Set(c)
        \/ Delete(c)
        \/ OnConnect(c)
        \/ OnDisconnect(c)
        \/ OnError(c)
        \/ OnInitialState(c)
        \/ OnOperation(c)
        \/ Pause(c)
        \/ Resume(c)
        \/ ServerJoinRoom(c)
        \/ ServerOperation(c)

Next ==
    \/ NextHandlers
    \/ \E c \in Clients : StrayOperation(c)

Spec == Init /\ [][Next]_vars

\* the transport delivers every message in flight and the event loops of the
\* server and of the clients run the handler of every message delivered
Delivery ==
    \A c \in Clients :
        /\ WF_vars(ServerJoinRoom(c))
        /\ WF_vars(ServerOperation(c))
        /\ WF_vars(OnInitialState(c))
        /\ WF_vars(OnOperation(c))

\* one client and the server, with a reconnect, editing one key
SoloOneKey == Scenario(MaxSoloOps, 0, MaxConnects, 0, FALSE, TRUE, {<<S("a")>>}, {Num(1)})

\* the run of one client with a reconnect, pauses and resumes
InitLive ==
    /\ scenario = SoloOneKey
    /\ InitSystem
    /\ lab = LabStart(<<"client", "server">>)
    /\ bench = BenchStart("client")

SpecLive == InitLive /\ [][NextHandlers]_vars /\ Delivery

(***************************************************************************)
(* The merge laboratory: two replicas, each running the client's           *)
(* remote-mode merge or the server's merge, start empty and merge the same *)
(* pool of operations, each in an order of its own (lab.order).  lab.last  *)
(* is the last merge: the replica, the operation, the metadata the replica *)
(* held at the operation's path and what each implementation decides.      *)
(***************************************************************************)
\* operations in the pool
MaxLabOps == 2

LabActors == {"A", "AB", "B"}

LabPaths == {<<S("a")>>, <<S("a"), S("x")>>, <<S("a"), S("y")>>, <<S("a"), N(0)>>}

LabKinds == {<<"client", "client">>, <<"client", "server">>, <<"server", "server">>}

\* the operations replica r has merged
LabDone(r) == {lab.order[r][i] : i \in 1..Len(lab.order[r])}

\* one remote merge on a replica of the given kind
LabMergeOp(kind, d, md, op) ==
    IF kind = "client"
    THEN LET r == applyOperation(d, md, op, TRUE)
         IN [doc |-> r.doc, metadata |-> r.metadata]
    ELSE ServerMerge(d, md, op)

InitMerge ==
    /\ scenario = Offline
    /\ InitSystem
    /\ \E kinds \in LabKinds : lab = LabStart(kinds)
    /\ bench = BenchStart("client")

\* an operation joins the pool, before any replica merges
LabDraw ==
    /\ Cardinality(lab.ops) < MaxLabOps
    /\ lab.order = <<<<>>, <<>>>>
    /\ \E path \in LabPaths, kind \in {"set", "del"}, value \in Values,
          now \in Times, actor \in LabActors :
          /\ kind = "del" => value = Num(1)
          /\ lab' = [lab EXCEPT !.ops = @ \cup
                        {Operation(<<"lab", Cardinality(lab.ops) + 1>>, path, kind,
                                   IF kind = "del" THEN Undefined ELSE value,
                                   now, actor, 1)}]
    /\ UNCHANGED <<systemVars, bench>>

\* replica r merges an operation of the pool it has not merged yet; the second
\* replica starts when the first has merged them all
LabMerge(r) ==
    /\ r = 2 => LabDone(1) = lab.ops
    /\ \E op \in lab.ops \ LabDone(r) :
          LET d == lab.doc[r]
              md == lab.metadata[r]
              key == StringifyPath(op.path)
              m == LabMergeOp(lab.kind[r], d, md, op)
          IN lab' = [lab EXCEPT
                       !.doc[r] = m.doc,
                       !.metadata[r] = m.metadata,
                       !.order[r] = Append(@, op),
                       !.last = [replica |-> r, op |-> op, had |-> key \in DOMAIN md,
                                 existing |-> IF key \in DOMAIN md THEN md[key]
                                              ELSE NoMetadata,
                                 client |-> ClientApplies(md, op, TRUE),
                                 server |-> ServerApplies(md, op)]]
    /\ UNCHANGED <<systemVars, bench>>

NextMerge ==
    \/ LabDraw
    \/ \E r \in {1, 2} : LabMerge(r)

SpecMerge == InitMerge /\ [][NextMerge]_vars

(***************************************************************************)
(* The merge bench.  One replica, a client in remote mode or the server,   *)
(* starts empty and merges operations one after the other.  bench.last is  *)
(* the last merge: the operation, the Document and metadata it met, what   *)
(* the client's and the server's merge each make of them, the events the   *)
(* client's merge emits, and what the replica's own merge makes of the     *)
(* same operation delivered a second time.                                 *)
(***************************************************************************)
\* operations a replica of the bench merges
MaxBenchOps == 4

BenchKinds == {"client", "server"}

BenchActors == {"A", "B"}

BenchPaths == {<<S("a")>>, <<S("a"), S("x")>>, <<S("a"), N(0)>>, <<S("a"), N(1)>>}

InitApply ==
    /\ scenario = Offline
    /\ InitSystem
    /\ lab = LabStart(<<"client", "server">>)
    /\ \E kind \in BenchKinds : bench = BenchStart(kind)

\* the replica merges one more operation; a set writes its clock reading, so
\* that writes of different times are told apart
BenchMerge ==
    /\ bench.merged < MaxBenchOps
    /\ \E path \in BenchPaths, kind \in {"set", "del"}, now \in Times,
          actor \in BenchActors :
          LET op == Operation(<<"bench", bench.merged + 1>>, path, kind,
                              IF kind = "del" THEN Undefined ELSE Num(now),
                              now, actor, 1)
              asClient == applyOperation(bench.doc, bench.metadata, op, TRUE)
              asServer == ServerMerge(bench.doc, bench.metadata, op)
              m == LabMergeOp(bench.kind, bench.doc, bench.metadata, op)
          IN bench' = [bench EXCEPT
                         !.doc = m.doc,
                         !.metadata = m.metadata,
                         !.merged = @ + 1,
                         !.last = [op |-> op,
                                   before |-> [doc |-> bench.doc,
                                               metadata |-> bench.metadata],
                                   client |-> [doc |-> asClient.doc,
                                               metadata |-> asClient.metadata],
                                   server |-> asServer,
                                   events |-> asClient.events,
                                   again |-> LabMergeOp(bench.kind, m.doc, m.metadata, op)]]
    /\ UNCHANGED <<systemVars, lab>>

NextApply == BenchMerge

SpecApply == InitApply /\ [][NextApply]_vars

(***************************************************************************)
(* Properties.                                                             *)
(***************************************************************************)
\* nothing is in flight and every client is connected, synced and live with an
\* empty Offline Queue and an empty Remote Buffer
Quiescent ==
    \A c \in Clients :
        /\ toServer[c] = <<>>
        /\ toClient[c] = <<>>
        /\ connected[c] /\ syncedWithServer[c] /\ isLiveMode[c]
        /\ offlineQueue[c] = <<>>
        /\ remoteOperationsBuffer[c] = <<>>

\* C1: system convergence at quiescence.  When every sent operation has been
\* merged by the server, every broadcast has been received by every client (no
\* message was dropped and no broadcast missed a client of the room), and every
\* client is connected, synced and live with an empty Offline Queue and an
\* empty Remote Buffer, each client's Document equals the room's Document.
C1_ConvergenceAtQuiescence ==
    (Quiescent /\ ~lost) =>
        \A c \in Clients : doc[c] = RoomState(roomId[c])

\* both replicas of the laboratory have merged every operation of the pool
LabAllMerged == lab.ops # {} /\ LabDone(1) = lab.ops /\ LabDone(2) = lab.ops

\* pairwise distinct writer ids and pairwise distinct timestamps
LabDistinct ==
    \A o1 \in lab.ops, o2 \in lab.ops :
        o1 # o2 => o1.actorId # o2.actorId /\ o1.timestamp # o2.timestamp

\* two paths are equal, or part at a segment of the same kind (both strings or
\* both numbers): neither is a prefix of the other and they agree on the kind
\* of every container they share
PathsCompatible(p, q) ==
    \/ p = q
    \/ \E k \in 1..Len(p) :
          /\ k <= Len(q)
          /\ SubSeq(p, 1, k - 1) = SubSeq(q, 1, k - 1)
          /\ p[k] # q[k]
          /\ p[k].num = q[k].num

LabSetsOnCompatiblePaths ==
    \A o1 \in lab.ops, o2 \in lab.ops :
        o1.op = "set" /\ PathsCompatible(o1.path, o2.path)

\* C2 as stated: order-independent convergence.  Two replicas that start empty
\* and merge, in remote mode and each in its own order, the same set/delete
\* operations with pairwise distinct writer ids and timestamps end with the
\* same Document.
C2_OrderIndependentConvergence ==
    (LabAllMerged /\ LabDistinct) => lab.doc[1] = lab.doc[2]

\* C2 amended: the same, for set operations only whose paths are pairwise
\* compatible (equal, or parting at a segment of the same kind).
C2_SetConvergence ==
    (LabAllMerged /\ LabDistinct /\ LabSetsOnCompatiblePaths) =>
        lab.doc[1] = lab.doc[2]

\* two set operations of one path, merged in opposite orders by the two replicas
C2_Witness ==
    /\ LabAllMerged /\ LabDistinct /\ LabSetsOnCompatiblePaths
    /\ Cardinality(lab.ops) = 2
    /\ \A o1 \in lab.ops, o2 \in lab.ops : o1.path = o2.path /\ Len(o1.path) = 2
    /\ lab.order[1] # lab.order[2]
    /\ lab.kind = <<"client", "server">>

\* a client has just received from the server an operation it created itself
EchoReceived ==
    /\ step.handler = "operation"
    /\ step.who \in Clients
    /\ step.op.actorId = step.who

\* C3: idempotent echo.  The receipt by a client of an operation it created and
\* sent leaves its Document and its metadata as they were and emits no change
\* event.
C3_IdempotentEcho ==
    EchoReceived =>
        /\ doc[step.who] = step.before.doc
        /\ metadata[step.who] = step.before.metadata
        /\ \A i \in 1..Len(step.events) : step.events[i].ev # "change"

\* C4: the LWW accept decision.  The client's remote-mode merge and the server's
\* merge both accept an incoming operation iff the replica holds no metadata at
\* its path, or the incoming timestamp is the greater, or the timestamps are
\* equal and the incoming writer id is the smaller.
C4_AcceptDecision ==
    lab.last.replica # 0 =>
        LET existing == lab.last.existing
            incoming == lab.last.op
            accept == \/ ~lab.last.had
                      \/ incoming.timestamp > existing.timestamp
                      \/ /\ incoming.timestamp = existing.timestamp
                         /\ StringLess(incoming.actorId, existing.actorId)
        IN lab.last.client = accept /\ lab.last.server = accept

\* an operation of writer "A" accepted over metadata of writer "AB" with the
\* same timestamp
C4_Witness ==
    /\ lab.last.replica # 0
    /\ lab.last.had
    /\ lab.last.op.timestamp = lab.last.existing.timestamp
    /\ lab.last.op.actorId = "A"
    /\ lab.last.existing.actorId = "AB"
    /\ lab.last.client /\ lab.last.server

\* the pool is two set operations of one path with equal timestamps, o1 by the
\* smaller writer id
LabTie(o1, o2) ==
    /\ lab.ops = {o1, o2}
    /\ o1.op = "set" /\ o2.op = "set"
    /\ o1.path = o2.path
    /\ o1.timestamp = o2.timestamp
    /\ StringLess(o1.actorId, o2.actorId)

\* C5: the tie-break is order-independent.  A replica (client or server) that
\* starts without metadata and has merged two set operations of one path with
\* equal timestamps and different writer ids holds, at that path, the value
\* and the metadata of the operation with the smaller writer id.
C5_TieBreak ==
    \A r \in {1, 2} : \A o1 \in lab.ops, o2 \in lab.ops :
        (LabTie(o1, o2) /\ LabDone(r) = lab.ops) =>
            /\ get(lab.doc[r], o1.path) = o1.value
            /\ StringifyPath(o1.path) \in DOMAIN lab.metadata[r]
            /\ lab.metadata[r][StringifyPath(o1.path)] = MetadataOf(o1)

\* the client replica merged the loser first and the server replica the winner
\* first, the two operations writing different values
C5_Witness ==
    \E o1 \in lab.ops, o2 \in lab.ops :
        /\ LabTie(o1, o2)
        /\ o1.value # o2.value
        /\ lab.kind = <<"client", "server">>
        /\ lab.order[1] = <<o2, o1>>
        /\ lab.order[2] = <<o1, o2>>

\* a client has just run set or delete
LocalEditDone == step.handler \in {"set", "delete"}

\* C6: a local set is never rejected.  Right after set(path, value), whatever
\* the replica's connection, sync and live state and whatever metadata it held
\* at the path, get(path) is value and the metadata at the path is the new
\* operation's timestamp, writer id and version.
C6_LocalSetApplied ==
    step.handler = "set" =>
        LET c == step.who
            pathKey == StringifyPath(step.op.path)
        IN /\ get(doc[c], step.op.path) = step.op.value
           /\ pathKey \in DOMAIN metadata[c]
           /\ metadata[c][pathKey] = MetadataOf(step.op)

\* a paused, connected and synced client set a path at which it held the
\* metadata of another writer's later write
C6_Witness ==
    /\ step.handler = "set"
    /\ StringifyPath(step.op.path) \in DOMAIN step.before.metadata
    /\ LET existing == step.before.metadata[StringifyPath(step.op.path)]
       IN /\ existing.timestamp > step.op.timestamp
          /\ existing.actorId # step.who
    /\ connected[step.who] /\ syncedWithServer[step.who] /\ ~isLiveMode[step.who]

\* C7: a local delete removes the value.  Right after delete(path), for a path
\* whose last segment is a mapping key, get(path) is absent and the replica
\* holds no metadata at the path.
C7_LocalDeleteRemoves ==
    (step.handler = "delete" /\ ~step.op.path[Len(step.op.path)].num) =>
        /\ get(doc[step.who], step.op.path) = Undefined
        /\ StringifyPath(step.op.path) \notin DOMAIN metadata[step.who]

\* C8: every local set or delete emits exactly one change event, carrying the
\* call's path, kind and value and isRemote false.
C8_LocalChangeEvent ==
    LocalEditDone => step.events = <<ChangeEvent(step.op, FALSE)>>

\* C9: the dispatch rule.  A local operation is sent, and the Offline Queue left
\* as it was, iff the replica is live, connected and synced; otherwise nothing
\* is sent and the operation is appended to the end of the Offline Queue.
C9_DispatchRule ==
    LocalEditDone =>
        LET c == step.who
            queueBefore == step.before.offlineQueue
        IN IF isLiveMode[c] /\ connected[c] /\ syncedWithServer[c]
           THEN /\ step.sent = <<OperationMsg(roomId[c], step.op, connects[c])>>
                /\ offlineQueue[c] = queueBefore
           ELSE /\ step.sent = <<>>
                /\ offlineQueue[c] = Append(queueBefore, step.op)

\* a paused, connected and synced client with a queued operation deleted a path
C9_Witness ==
    /\ step.handler = "delete"
    /\ connected[step.who] /\ syncedWithServer[step.who] /\ ~isLiveMode[step.who]
    /\ step.before.offlineQueue # <<>>

\* C10: no operation leaves a paused replica.  A client handler sends operation
\* messages only when the client is connected, synced and live.
C10_SendsOnlyWhenLive ==
    (step.who \in Clients /\ \E i \in 1..Len(step.sent) : step.sent[i].type = "operation") =>
        connected[step.who] /\ syncedWithServer[step.who] /\ isLiveMode[step.who]

\* a connected client whose join_room for its current connection has not been
\* answered yet, or whose initial state is still in flight
AwaitingInitialState(c) ==
    /\ connected[c]
    /\ \/ \E i \in 1..Len(toServer[c]) :
             toServer[c][i].type = "join_room" /\ toServer[c][i].conn = connects[c]
       \/ \E i \in 1..Len(toClient[c]) : toClient[c][i].type = "initial_state"

\* C11: disconnect revokes synced.  A local operation made while the client is
\* disconnected, or connected again but still waiting for the initial state of
\* its connection, is appended to the Offline Queue and not sent.
C11_QueuedUntilResynced ==
    (LocalEditDone /\ (~connected[step.who] \/ AwaitingInitialState(step.who))) =>
        /\ step.sent = <<>>
        /\ offlineQueue[step.who] = Append(step.before.offlineQueue, step.op)

\* no operation is at once in a client's Offline Queue and on its way to the
\* server, and none is there twice
NoDuplicateDispatch(c) ==
    LET inFlight == SelectSeq(toServer[c], LAMBDA msg : msg.type = "operation")
        ids == [i \in 1..Len(inFlight) |-> inFlight[i].op.id]
               \o [i \in 1..Len(offlineQueue[c]) |-> offlineQueue[c][i].id]
    IN \A i \in 1..Len(ids), j \in 1..Len(ids) : i # j => ids[i] # ids[j]

\* C12: offline edits are delivered on reconnect.  When a live replica receives
\* an initial state, it sends every operation of its Offline Queue once, in the
\* order of the queue, and the queue is empty afterwards; no operation is both
\* queued and sent.
C12_QueueFlushedInOrder ==
    /\ \A c \in Clients : NoDuplicateDispatch(c)
    /\ (step.handler = "initial_state" /\ isLiveMode[step.who]) =>
          LET c == step.who
              queued == step.before.offlineQueue
          IN /\ Len(step.sent) = Len(queued)
             /\ \A i \in 1..Len(queued) :
                   /\ step.sent[i].type = "operation"
                   /\ step.sent[i].room = roomId[c]
                   /\ step.sent[i].op = queued[i]
             /\ offlineQueue[c] = <<>>

\* a live replica received the initial state of its second connection with two
\* operations queued, both made while it was disconnected
C12_Witness ==
    /\ step.handler = "initial_state"
    /\ isLiveMode[step.who]
    /\ connects[step.who] = 2
    /\ Len(step.before.offlineQueue) = 2
    /\ step.before.offlineQueue[1].path # step.before.offlineQueue[2].path
    /\ Len(step.sent) = 2

\* C13: the initial state is a wholesale overwrite.  The initial_state handler
\* makes the replica's Document and metadata map exactly the snapshot and the
\* metadata received, makes it synced and emits synced; the flush comes after
\* that, so a live replica sends its whole Offline Queue in the same handler.
C13_InitialStateOverwrites ==
    [][step'.handler = "initial_state" =>
          LET c == step'.who
              msg == Head(toClient[c])
          IN /\ doc'[c] = msg.doc
             /\ metadata'[c] = msg.metadata
             /\ syncedWithServer'[c]
             /\ step'.events = <<SignalEvent("synced", "")>>
             /\ isLiveMode[c] =>
                   /\ step'.sent = [i \in 1..Len(offlineQueue[c]) |->
                                      OperationMsg(roomId[c], offlineQueue[c][i],
                                                   connects[c])]
                   /\ offlineQueue'[c] = <<>>]_vars

\* an initial state with a non-empty snapshot replaced a Document and metadata
\* of a local edit the snapshot does not have, on a replica that was not synced
\* and had that edit queued
C13_Witness ==
    /\ step.handler = "initial_state"
    /\ get(step.before.doc, <<S("a"), S("x")>>) # Undefined
    /\ StringifyPath(<<S("a"), S("x")>>) \in DOMAIN step.before.metadata
    /\ get(doc[step.who], <<S("a")>>) = Num(1)
    /\ DOMAIN metadata[step.who] = {StringifyPath(<<S("a")>>)}
    /\ step.before.offlineQueue # <<>>
    /\ step.sent # <<>>

\* C14: remote operations are buffered while paused.  A paused replica that
\* receives an operation of its room whose id is not in its Offline Queue
\* appends it, unchanged, to the end of its Remote Buffer, leaves its Document,
\* metadata map and Offline Queue as they were and emits nothing.
C14_BufferedWhilePaused ==
    [][(step'.handler = "operation" /\ step'.who \in Clients) =>
          LET c == step'.who
              msg == Head(toClient[c])
          IN (/\ ~isLiveMode[c]
              /\ msg.room = roomId[c]
              /\ \A i \in 1..Len(offlineQueue[c]) : offlineQueue[c][i].id # msg.op.id) =>
                 /\ remoteOperationsBuffer'[c] = Append(remoteOperationsBuffer[c], msg.op)
                 /\ doc'[c] = doc[c]
                 /\ metadata'[c] = metadata[c]
                 /\ offlineQueue'[c] = offlineQueue[c]
                 /\ step'.events = <<>>]_vars

\* a paused replica with a queued local edit buffered another writer's operation
\* that the LWW decision would have accepted
C14_Witness ==
    /\ step.handler = "operation"
    /\ step.who \in Clients
    /\ ~isLiveMode[step.who]
    /\ step.op.actorId # step.who
    /\ remoteOperationsBuffer[step.who] # <<>>
    /\ remoteOperationsBuffer[step.who][Len(remoteOperationsBuffer[step.who])] = step.op
    /\ offlineQueue[step.who] # <<>>
    /\ ClientApplies(metadata[step.who], step.op, TRUE)

RECURSIVE MergedInArrivalOrder(_, _, _, _)
\* the first n entries of a buffer merged one after the other in remote mode,
\* each against the Document and metadata the entries before it left
MergedInArrivalOrder(d, md, buffer, n) ==
    IF n = 0 THEN [doc |-> d, metadata |-> md, events |-> <<>>]
    ELSE LET sofar == MergedInArrivalOrder(d, md, buffer, n - 1)
             r == applyOperation(sofar.doc, sofar.metadata, buffer[n], TRUE)
         IN [doc |-> r.doc, metadata |-> r.metadata, events |-> sofar.events \o r.events]

\* C15: resume ordering.  resume on a paused replica makes it live, merges the
\* Remote Buffer in arrival order, each entry through the remote-mode decision
\* against the metadata current at that moment, then flushes the Offline Queue
\* (when connected and synced), then emits resume; the Remote Buffer is empty
\* afterwards and every send of the flush follows every change of the replay.
C15_ResumeOrdering ==
    [][(step'.handler = "resume" /\ ~isLiveMode[step'.who]) =>
          LET c == step'.who
              buffer == remoteOperationsBuffer[c]
              merged == MergedInArrivalOrder(doc[c], metadata[c], buffer, Len(buffer))
              flush == connected[c] /\ syncedWithServer[c]
              out == IF flush
                     THEN [i \in 1..Len(offlineQueue[c]) |->
                             OperationMsg(roomId[c], offlineQueue[c][i], connects[c])]
                     ELSE <<>>
          IN /\ isLiveMode'[c]
             /\ doc'[c] = merged.doc
             /\ metadata'[c] = merged.metadata
             /\ remoteOperationsBuffer'[c] = <<>>
             /\ step'.events = merged.events \o <<SignalEvent("resume", "")>>
             /\ step'.sent = out
             /\ offlineQueue'[c] = IF flush THEN <<>> ELSE offlineQueue[c]
             /\ step'.effects = Emits(merged.events) \o Sends(out) \o <<"emit resume">>]_vars

\* resume merged another writer's buffered operation over a local edit of the
\* same path made while paused, then sent that edit, then emitted resume
C15_Witness ==
    /\ step.handler = "resume"
    /\ Len(step.before.remoteOperationsBuffer) = 1
    /\ Len(step.before.offlineQueue) = 1
    /\ step.before.remoteOperationsBuffer[1].actorId # step.who
    /\ step.before.remoteOperationsBuffer[1].path = step.before.offlineQueue[1].path
    /\ step.effects = <<"emit change", "send operation", "emit resume">>
    /\ remoteOperationsBuffer[step.who] = <<>>

\* client c's live flag, Document, metadata, Offline Queue and Remote Buffer
\* stay as they are and nothing is put on any channel
ReplicaUntouched(c) ==
    /\ isLiveMode'[c] = isLiveMode[c]
    /\ doc'[c] = doc[c]
    /\ metadata'[c] = metadata[c]
    /\ offlineQueue'[c] = offlineQueue[c]
    /\ remoteOperationsBuffer'[c] = remoteOperationsBuffer[c]
    /\ toServer' = toServer
    /\ toClient' = toClient

\* C16: pause and resume are idempotent.  pause on a paused replica and resume
\* on a live replica change nothing, send nothing and emit nothing; pause on a
\* live replica emits exactly one pause and resume on a paused replica exactly
\* one resume.
C16_PauseResumeIdempotent ==
    [][/\ step'.handler = "pause" =>
             IF isLiveMode[step'.who]
             THEN /\ ~isLiveMode'[step'.who]
                  /\ step'.events = <<SignalEvent("pause", "")>>
             ELSE /\ ReplicaUntouched(step'.who)
                  /\ step'.events = <<>> /\ step'.sent = <<>>
       /\ step'.handler = "resume" =>
             IF ~isLiveMode[step'.who]
             THEN /\ isLiveMode'[step'.who]
                  /\ Cardinality({i \in 1..Len(step'.events) :
                                     step'.events[i].ev = "resume"}) = 1
             ELSE /\ ReplicaUntouched(step'.who)
                  /\ step'.events = <<>> /\ step'.sent = <<>>]_vars

\* pause was called on a paused replica that holds a queued and a buffered
\* operation
C16_Witness ==
    /\ step.handler = "pause"
    /\ step.events = <<>>
    /\ ~isLiveMode[step.who]
    /\ offlineQueue[step.who] # <<>>
    /\ remoteOperationsBuffer[step.who] # <<>>

C18_JoinSendsSnapshot ==
    [][(step'.who = "server" /\ step'.handler = "join_room") =>
          LET c == CHOOSE m \in Clients : toServer'[m] # toServer[m]
              msg == Head(toServer[c])
              room == msg.room
              current == IF room \in DOMAIN roomStates THEN roomStates[room]
                         ELSE EmptyObject
              currentMetadata == IF room \in DOMAIN roomMetadata THEN roomMetadata[room]
                                 ELSE EmptyMap
          IN /\ room \in DOMAIN roomStates' /\ roomStates'[room] = current
             /\ room \in DOMAIN roomMetadata' /\ roomMetadata'[room] = currentMetadata
             /\ \A m \in Clients \ {c} : toClient'[m] = toClient[m]
             /\ (connected[c] /\ msg.conn = connects[c]) =>
                   /\ members'[room] = members[room] \cup {c}
                   /\ Len(toClient'[c]) = Len(toClient[c]) + 1
                   /\ SubSeq(toClient'[c], 1, Len(toClient[c])) = toClient[c]
                   /\ toClient'[c][Len(toClient'[c])].type = "initial_state"
                   /\ toClient'[c][Len(toClient'[c])].doc = JsonClone(current)
                   /\ toClient'[c][Len(toClient'[c])].metadata = currentMetadata]_vars

\* a second client joined a room that held a value and its metadata, and the
\* snapshot sent to it carries both
C18_Witness ==
    /\ step.who = "server" /\ step.handler = "join_room"
    /\ get(step.before.doc, <<S("a")>>) = Num(1)
    /\ step.before.metadata # EmptyMap
    /\ members["r1"] = Clients
    /\ \E c \in Clients :
          /\ toClient[c] # <<>>
          /\ toClient[c][Len(toClient[c])].type = "initial_state"
          /\ toClient[c][Len(toClient[c])].doc = step.before.doc
          /\ toClient[c][Len(toClient[c])].metadata = step.before.metadata

\* C19: a rejected operation has no effect.  When a live client handles an
\* operation message of its room that matches no Offline Queue entry and the
\* remote-mode decision rejects it, the client's Document, metadata map,
\* Offline Queue and Remote Buffer are unchanged and it emits no event; when
\* the server's decision rejects an operation, the room's Document and
\* metadata map are unchanged.
C19_RejectedHasNoEffect ==
    [][/\ (/\ step'.who \in Clients
           /\ step'.handler = "operation"
           /\ Head(toClient[step'.who]).room = roomId[step'.who]
           /\ isLiveMode[step'.who]
           /\ IndexInQueue(offlineQueue[step'.who], step'.op) = 0
           /\ ~ClientApplies(metadata[step'.who], step'.op, TRUE)) =>
              /\ doc' = doc
              /\ metadata' = metadata
              /\ offlineQueue' = offlineQueue
              /\ remoteOperationsBuffer' = remoteOperationsBuffer
              /\ step'.events = <<>>
              /\ toServer' = toServer
       /\ (/\ step'.who = "server"
           /\ step'.handler = "operation"
           /\ ~ServerApplies(step'.before.metadata, step'.op)) =>
              /\ roomStates' = roomStates
              /\ roomMetadata' = roomMetadata
              /\ roomStates'[step'.arg] = step'.before.doc
              /\ roomMetadata'[step'.arg] = step'.before.metadata]_vars

\* a live client has just rejected another writer's operation: its path holds
\* metadata that the operation does not beat
C19_Witness ==
    /\ step.who \in Clients
    /\ step.handler = "operation"
    /\ isLiveMode[step.who]
    /\ step.op.actorId # step.who
    /\ IndexInQueue(step.before.offlineQueue, step.op) = 0
    /\ StringifyPath(step.op.path) \in DOMAIN step.before.metadata
    /\ ~ClientApplies(step.before.metadata, step.op, TRUE)
    /\ doc[step.who] = step.before.doc
    /\ metadata[step.who] = step.before.metadata
    /\ metadata[step.who][StringifyPath(step.op.path)] # MetadataOf(step.op)
    /\ step.events = <<>>

\* the last step merged an operation its replica's decision accepted: a local
\* set or delete, a remote operation a live client applied, or an operation
\* the server applied
AcceptedMerge ==
    \/ LocalEditDone
    \/ /\ step.who \in Clients
       /\ step.handler = "operation"
       /\ isLiveMode[step.who]
       /\ IndexInQueue(step.before.offlineQueue, step.op) = 0
       /\ ClientApplies(step.before.metadata, step.op, TRUE)
    \/ /\ step.who = "server"
       /\ step.handler = "operation"
       /\ ServerApplies(step.before.metadata, step.op)

\* the metadata map of the replica that took the last step
MetadataAfterStep ==
    IF step.who = "server" THEN RoomMeta(step.arg) ELSE metadata[step.who]

\* C20: effect of an accepted operation on metadata.  On every replica (client
\* in local or remote mode, server), right after an accepted set the metadata
\* at the operation's path is the operation's timestamp, writer id and
\* version, and right after an accepted delete the replica holds no metadata
\* at the operation's path, whether or not the delete removed a value.
C20_AcceptedMetadata ==
    AcceptedMerge =>
        LET pathKey == StringifyPath(step.op.path)
        IN IF step.op.op = "set"
           THEN /\ pathKey \in DOMAIN MetadataAfterStep
                /\ MetadataAfterStep[pathKey] = MetadataOf(step.op)
           ELSE pathKey \notin DOMAIN MetadataAfterStep

\* the replica of the bench has merged an operation
BenchMerged == bench.merged > 0

\* C21: server and client merge are the same function.  Whatever Document and
\* metadata map a replica holds and whatever operation arrives, the server's
\* merge and the client's remote-mode merge leave the same Document and the
\* same metadata map.
C21_SameMerge ==
    BenchMerged =>
        /\ bench.last.client.doc = bench.last.server.doc
        /\ bench.last.client.metadata = bench.last.server.metadata

\* C22: remote change events.  A live client that merges a remote operation
\* which is no echo emits exactly one change event, carrying the operation's
\* path, kind and value and isRemote true, iff the decision accepts it, and
\* none otherwise; after an accepted set get(path) is the operation's value
\* and after an accepted delete of a mapping key get(path) is absent.
C22_RemoteChangeEvent ==
    (BenchMerged /\ bench.kind = "client") =>
        LET op == bench.last.op
            accepted == ClientApplies(bench.last.before.metadata, op, TRUE)
        IN /\ bench.last.events = IF accepted THEN <<ChangeEvent(op, TRUE)>> ELSE <<>>
           /\ (accepted /\ op.op = "set") => get(bench.doc, op.path) = op.value
           /\ (accepted /\ op.op = "del" /\ ~op.path[Len(op.path)].num) =>
                 get(bench.doc, op.path) = Undefined

C24_DuplicateHarmless ==
    BenchMerged =>
        /\ bench.last.again.doc = bench.doc
        /\ bench.last.again.metadata = bench.metadata

\* C25: operations on different paths commute.  Two replicas of one kind that
\* start equal and merge the same remote operations, all of different paths,
\* each in its own order, end with the same Document and the same metadata
\* map.
C25_DifferentPathsCommute ==
    (/\ LabAllMerged
     /\ lab.kind[1] = lab.kind[2]
     /\ \A o1 \in lab.ops, o2 \in lab.ops : o1 # o2 => o1.path # o2.path) =>
        /\ lab.doc[1] = lab.doc[2]
        /\ lab.metadata[1] = lab.metadata[2]

\* the decision of the bench's replica on an operation against a metadata map
BenchAccepts(md, op) ==
    IF bench.kind = "client" THEN ClientApplies(md, op, TRUE) ELSE ServerApplies(md, op)

\* C26: no tombstone, so an older set resurrects a deleted value.  When a
\* replica (client or server) has accepted a delete at a path and the next
\* operation it merges is a remote set at the same path with a smaller
\* timestamp, the set is accepted and the path then reads its value.
C26_OlderSetResurrects ==
    [][(/\ BenchMerged
        /\ bench.last.op.op = "del"
        /\ BenchAccepts(bench.last.before.metadata, bench.last.op)
        /\ bench'.last.op.op = "set"
        /\ bench'.last.op.path = bench.last.op.path
        /\ bench'.last.op.timestamp < bench.last.op.timestamp) =>
          /\ BenchAccepts(bench.metadata, bench'.last.op)
          /\ get(bench'.doc, bench'.last.op.path) = bench'.last.op.value]_vars

\* C27: write coerces intermediate containers.  After a replica (client or
\* server) applies a set, every intermediate segment of the path holds an
\* array if the next segment is an integer and a mapping if it is a string; an
\* intermediate value of the wrong kind (absent, scalar, or the other
\* container type) has been replaced by a fresh container that holds nothing
\* but the rest of the path; and the path reads the written value.
C27_WriteCoerces ==
    (/\ BenchMerged
     /\ bench.last.op.op = "set"
     /\ BenchAccepts(bench.last.before.metadata, bench.last.op)) =>
        LET path == bench.last.op.path
        IN /\ \A i \in 1..(Len(path) - 1) :
                 LET now == get(bench.doc, SubSeq(path, 1, i))
                     old == get(bench.last.before.doc, SubSeq(path, 1, i))
                     fresh == IF path[i + 1].num THEN EmptyArray ELSE EmptyObject
                 IN /\ IsContainer(now)
                    /\ IsArray(now) = path[i + 1].num
                    /\ (~IsContainer(old) \/ IsArray(old) # path[i + 1].num) =>
                          SetProp(fresh, path[i + 1], GetProp(now, path[i + 1])) = now
           /\ get(bench.doc, path) = bench.last.op.value

\* C28: array delete splices.  When a replica (client or server) accepts a
\* delete whose parent is an array and whose last segment is an integer i: if
\* i is in range, the array loses element i, every later element moves down
\* by one and nothing else in the array changes, the entry of the deleted path
\* is removed and every other metadata entry, those of the later indices
\* included, is left as it was; if i is out of range the Document is
\* unchanged.
C28_ArrayDeleteSplices ==
    (/\ BenchMerged
     /\ bench.last.op.op = "del"
     /\ BenchAccepts(bench.last.before.metadata, bench.last.op)
     /\ bench.last.op.path[Len(bench.last.op.path)].num
     /\ IsArray(get(bench.last.before.doc,
                    SubSeq(bench.last.op.path, 1, Len(bench.last.op.path) - 1)))) =>
        LET path == bench.last.op.path
            i == path[Len(path)].idx
            parent == SubSeq(path, 1, Len(path) - 1)
            old == get(bench.last.before.doc, parent)
            new == get(bench.doc, parent)
        IN IF i < Len(old.a)
           THEN /\ IsArray(new)
                /\ Len(new.a) = Len(old.a) - 1
                /\ \A j \in 1..Len(new.a) :
                      new.a[j] = IF j <= i THEN old.a[j] ELSE old.a[j + 1]
                /\ new.m = old.m
                /\ bench.metadata =
                      [k \in DOMAIN bench.last.before.metadata \ {StringifyPath(path)} |->
                         bench.last.before.metadata[k]]
           ELSE bench.doc = bench.last.before.doc

\* a replica holding [1, 2] under a, with metadata for both indices, has just
\* accepted delete(a.0): it holds [2] and the entry of a.1 is still there
C28_Witness ==
    /\ BenchMerged
    /\ bench.last.op.op = "del"
    /\ bench.last.op.path = <<S("a"), N(0)>>
    /\ BenchAccepts(bench.last.before.metadata, bench.last.op)
    /\ get(bench.last.before.doc, <<S("a")>>) = Arr(<<Num(1), Num(2)>>, EmptyMap)
    /\ get(bench.doc, <<S("a")>>) = Arr(<<Num(2)>>, EmptyMap)
    /\ StringifyPath(<<S("a"), N(0)>>) \in DOMAIN bench.last.before.metadata
    /\ StringifyPath(<<S("a"), N(0)>>) \notin DOMAIN bench.metadata
    /\ StringifyPath(<<S("a"), N(1)>>) \in DOMAIN bench.metadata
    /\ bench.metadata[StringifyPath(<<S("a"), N(1)>>)].timestamp = 2

\* a delete of path finds nothing to remove in document d: an intermediate
\* segment is missing or holds no container, or the parent does not hold the
\* terminal key (an integer segment under an array parent is the splice case
\* and is not meant here)
DeleteInapplicable(d, path) ==
    LET parent == get(d, SubSeq(path, 1, Len(path) - 1))
        lastSegment == path[Len(path)]
    IN \/ ~IsContainer(parent)
       \/ ~(IsArray(parent) /\ lastSegment.num) /\ ~HasOwn(parent, lastSegment)

\* C29: inapplicable removes are absorbed.  A delete whose path has a missing
\* or non-container intermediate segment, or whose terminal key the parent
\* does not hold, leaves the Document as it was, on the client and on the
\* server, and the client emits no error event.
C29_InapplicableDeleteAbsorbed ==
    (/\ BenchMerged
     /\ bench.last.op.op = "del"
     /\ DeleteInapplicable(bench.last.before.doc, bench.last.op.path)) =>
        /\ bench.doc = bench.last.before.doc
        /\ bench.last.client.doc = bench.last.before.doc
        /\ bench.last.server.doc = bench.last.before.doc
        /\ \A i \in 1..Len(bench.last.events) : bench.last.events[i].ev # "error"

\* a replica holding the number 1 under a has just accepted delete(a.x), whose
\* intermediate segment holds no container, and goes on holding what it held
C29_Witness ==
    /\ BenchMerged
    /\ bench.last.op.op = "del"
    /\ bench.last.op.path = <<S("a"), S("x")>>
    /\ BenchAccepts(bench.last.before.metadata, bench.last.op)
    /\ get(bench.last.before.doc, <<S("a")>>) = Num(1)
    /\ DeleteInapplicable(bench.last.before.doc, bench.last.op.path)
    /\ bench.doc = bench.last.before.doc
    /\ bench.merged < MaxBenchOps

\* C30: Remote Buffer entries leave only by replay.  A live replica's Remote
\* Buffer is empty; the buffer changes only when the paused replica handles an
\* operation message, which appends the received operation, and when the
\* paused replica resumes, which empties it; connect, disconnect,
\* initial_state, set, delete and pause leave its contents and order as they
\* were.
C30_BufferLeavesOnlyByReplay ==
    /\ [](\A c \in Clients : isLiveMode[c] => remoteOperationsBuffer[c] = <<>>)
    /\ [][\A c \in Clients :
             remoteOperationsBuffer'[c] # remoteOperationsBuffer[c] =>
                /\ step'.who = c
                /\ ~isLiveMode[c]
                /\ \/ /\ step'.handler = "operation"
                      /\ remoteOperationsBuffer'[c] =
                            Append(remoteOperationsBuffer[c], step'.op)
                   \/ /\ step'.handler = "resume"
                      /\ remoteOperationsBuffer'[c] = <<>>]_vars

\* a paused replica that holds a buffered operation has just been through a
\* disconnect, a connect, an initial_state, a set, a delete or a pause, and
\* holds the same buffer
C30_Witness ==
    /\ step.who \in Clients
    /\ step.handler \in {"disconnect", "set", "delete", "initial_state", "connect", "pause"}
    /\ ~isLiveMode[step.who]
    /\ remoteOperationsBuffer[step.who] # <<>>
    /\ remoteOperationsBuffer[step.who] = step.before.remoteOperationsBuffer

(***************************************************************************)
(* Connection events, transport errors and version assignment.             *)
(***************************************************************************)
\* the replica state that neither a connect nor a disconnect may touch is the
\* same before and after the step of client c
ReplicaDataKept(c) ==
    /\ doc'[c] = doc[c]
    /\ metadata'[c] = metadata[c]
    /\ offlineQueue'[c] = offlineQueue[c]
    /\ remoteOperationsBuffer'[c] = remoteOperationsBuffer[c]
    /\ isLiveMode'[c] = isLiveMode[c]

\* C31: connection events.  On a transport connect the replica becomes
\* connected, emits connect and then sends exactly one join_room for its room;
\* on a transport disconnect it becomes disconnected and emits disconnect with
\* the transport's reason; neither changes the Document, the metadata map, the
\* Offline Queue, the Remote Buffer or the live flag.
C31_ConnectionEvents ==
    [][/\ step'.handler = "connect" =>
             LET c == step'.who
             IN /\ connected'[c]
                /\ step'.events = <<SignalEvent("connect", "")>>
                /\ Len(step'.sent) = 1
                /\ step'.sent[1].type = "join_room"
                /\ step'.sent[1].room = roomId[c]
                /\ toServer'[c] = Append(toServer[c], step'.sent[1])
                /\ step'.effects = <<"emit connect", "send join_room">>
                /\ ReplicaDataKept(c)
       /\ step'.handler = "disconnect" =>
             LET c == step'.who
             IN /\ ~connected'[c]
                /\ Len(step'.events) = 1
                /\ step'.events[1].ev = "disconnect"
                /\ step'.arg \in Reasons
                /\ step'.events[1].reason = step'.arg
                /\ step'.sent = <<>>
                /\ step'.effects = <<"emit disconnect">>
                /\ ReplicaDataKept(c)]_vars

\* a paused replica that was synced before, with an operation in its Offline
\* Queue and one in its Remote Buffer, has just connected again
C31_Witness ==
    /\ step.handler = "connect"
    /\ connects[step.who] = 2
    /\ syncedWithServer[step.who]
    /\ ~isLiveMode[step.who]
    /\ offlineQueue[step.who] # <<>>
    /\ remoteOperationsBuffer[step.who] # <<>>

\* C32: a transport error is only forwarded.  On a transport error the client
\* emits one error event with the payload the transport passed and changes
\* nothing else: the connected, synced and live flags, the Document, the
\* metadata, the Offline Queue and the Remote Buffer are as before and nothing
\* is sent.
C32_ErrorOnlyForwarded ==
    [][step'.handler = "error" =>
          LET c == step'.who
          IN /\ step'.arg \in Errors
             /\ step'.events = <<SignalEvent("error", step'.arg)>>
             /\ step'.effects = <<"emit error">>
             /\ step'.sent = <<>>
             /\ toServer' = toServer
             /\ connected'[c] = connected[c]
             /\ syncedWithServer'[c] = syncedWithServer[c]
             /\ ReplicaDataKept(c)]_vars

\* the transport of a connected, synced and paused client reported an error
\* while the client held a queued and a buffered operation
C32_Witness ==
    /\ step.handler = "error"
    /\ connected[step.who] /\ syncedWithServer[step.who] /\ ~isLiveMode[step.who]
    /\ offlineQueue[step.who] # <<>>
    /\ remoteOperationsBuffer[step.who] # <<>>

\* C33: version assignment.  The version of a locally created operation is the
\* version in the metadata the replica held at the operation's path just
\* before the call plus one, and 1 when it held no metadata at the path.
C33_VersionAssigned ==
    LocalEditDone =>
        LET pathKey == StringifyPath(step.op.path)
            held == step.before.metadata
        IN step.op.version = IF pathKey \in DOMAIN held THEN held[pathKey].version + 1 ELSE 1

\* a client edited a path at which it held the metadata of another writer's
\* operation, and created an operation of version 2
C33_Witness ==
    /\ LocalEditDone
    /\ StringifyPath(step.op.path) \in DOMAIN step.before.metadata
    /\ step.before.metadata[StringifyPath(step.op.path)].actorId # step.who
    /\ step.op.version = 2

(***************************************************************************)
(* What the accept decision looks at.                                      *)
(***************************************************************************)
\* the operations that agree with op on path, timestamp and writer id
SameStamp(op) ==
    {Operation(id, op.path, kind, value, op.timestamp, op.actorId, version) :
        id \in {op.id, <<"other", 0>>}, kind \in {"set", "del"},
        value \in Values \cup {Undefined}, version \in 1..3}

\* the metadata records that agree with existing on timestamp and writer id
SameStampMetadata(existing) ==
    {[timestamp |-> existing.timestamp, actorId |-> existing.actorId, version |-> version] :
        version \in 1..3}

\* C34: the accept decision depends only on timestamp and writer id.  Against
\* the same existing metadata, every incoming operation at the path with the
\* timestamp and writer id of the one just merged gets the decision that one
\* got, on the client and on the server, whatever its id, version, kind and
\* value, and whatever the version of the existing metadata.
C34_DecisionBlindToRest ==
    (lab.last.replica # 0) =>
        LET op == lab.last.op
            pathKey == StringifyPath(op.path)
        IN \A other \in SameStamp(op) :
              IF lab.last.had
              THEN \A existing \in SameStampMetadata(lab.last.existing) :
                      LET md == Put(EmptyMap, pathKey, existing)
                      IN /\ ClientApplies(md, other, TRUE) = lab.last.client
                         /\ ServerApplies(md, other) = lab.last.server
              ELSE /\ ClientApplies(EmptyMap, other, TRUE) = lab.last.client
                   /\ ServerApplies(EmptyMap, other) = lab.last.server

\* a replica rejected an operation whose timestamp equals that of the metadata
\* it held at the path, written by a smaller writer id
C34_Witness ==
    /\ lab.last.replica # 0
    /\ lab.last.had
    /\ lab.last.op.timestamp = lab.last.existing.timestamp
    /\ lab.last.op.actorId # lab.last.existing.actorId
    /\ ~lab.last.client
    /\ ~lab.last.server

(***************************************************************************)
(* Dispatch: order, at most once, eventually.                              *)
(***************************************************************************)
\* the position of an operation among those its client created
CreationIndex(op) == op.id[2]

\* the operations among the messages msgs, in order
OperationsOf(msgs) ==
    LET ops == SelectSeq(msgs, LAMBDA msg : msg.type = "operation")
    IN [i \in 1..Len(ops) |-> ops[i].op]

\* C35: per-client send order.  The operations a client sends are sent in the
\* order the client created them, across any interleaving of disconnect,
\* connect, initial-state, pause and resume events: the operations a step
\* sends, and those on their way to the server, are in creation order, and no
\* operation is sent while one created earlier still waits in the Offline
\* Queue.
C35_SentInCreationOrder ==
    \A c \in Clients :
        LET inFlight == OperationsOf(toServer[c])
            sentNow == IF step.who = c THEN OperationsOf(step.sent) ELSE <<>>
        IN /\ \A i \in 1..Len(inFlight), j \in 1..Len(inFlight) :
                 i < j => CreationIndex(inFlight[i]) < CreationIndex(inFlight[j])
           /\ \A i \in 1..Len(sentNow), j \in 1..Len(offlineQueue[c]) :
                 CreationIndex(sentNow[i]) < CreationIndex(offlineQueue[c][j])

\* the sequence ids holds no id twice
NoRepeat(ids) == \A i \in 1..Len(ids), j \in 1..Len(ids) : i # j => ids[i] # ids[j]

\* C36: each locally created operation is sent at most once.  No operation id
\* is among the ids a client has sent twice, no operation in the Offline Queue
\* has been sent, and the Offline Queue never holds an operation id twice.
C36_SentAtMostOnce ==
    \A c \in Clients :
        LET queued == [i \in 1..Len(offlineQueue[c]) |-> offlineQueue[c][i].id]
        IN /\ NoRepeat(dispatched[c])
           /\ NoRepeat(queued)
           /\ \A i \in 1..Len(queued), j \in 1..Len(dispatched[c]) :
                 queued[i] # dispatched[c][j]

\* a client that had sent one operation on its first connection flushed
\* another, queued while it was disconnected, on the initial state of its second
C36_Witness ==
    /\ step.handler = "initial_state"
    /\ connects[step.who] = 2
    /\ Len(step.before.offlineQueue) = 1
    /\ Len(step.sent) = 1
    /\ Len(dispatched[step.who]) = 2
    /\ offlineQueue[step.who] = <<>>

\* client c is connected, synced and live and holds queued operations
ReadyWithQueue(c) ==
    /\ connected[c] /\ syncedWithServer[c] /\ isLiveMode[c]
    /\ offlineQueue[c] # <<>>

\* C37: queued operations are eventually sent.  A client that is connected,
\* synced and live with a non-empty Offline Queue always has an initial state
\* on its way (its join_room or the answer is in flight), whose handler
\* flushes the queue; and if from some point on the client stays live and
\* connected, then from some point on its Offline Queue is empty and every
\* operation it created has been sent.
C37_QueuedEventuallySent ==
    /\ [](\A c \in Clients : ReadyWithQueue(c) => AwaitingInitialState(c))
    /\ \A c \in Clients :
          <>[](isLiveMode[c] /\ connected[c])
              => <>[](offlineQueue[c] = <<>> /\ Len(dispatched[c]) = created[c])

\* a connected and synced client that queued two operations while it was
\* paused has resumed and sent both
C37_Witness ==
    /\ step.handler = "resume"
    /\ connected[step.who] /\ syncedWithServer[step.who] /\ isLiveMode[step.who]
    /\ Len(step.before.offlineQueue) = 2
    /\ Len(step.sent) = 2
    /\ offlineQueue[step.who] = <<>>

(***************************************************************************)
(* The server's metadata under the LWW order.                              *)
(***************************************************************************)
\* the pair (timestamp, writer id) of new wins against that of old under the
\* LWW order
WinsLWW(new, old) ==
    \/ new.timestamp > old.timestamp
    \/ new.timestamp = old.timestamp /\ StringLess(new.actorId, old.actorId)

\* on a server replica, a metadata entry that is there before and after a
\* merge and has changed holds a pair that wins against the one it held
ServerEntriesMoveForward ==
    [][\A r \in {1, 2} :
          lab.kind[r] = "server" =>
              \A key \in DOMAIN lab.metadata[r] \cap DOMAIN lab'.metadata[r] :
                  lab'.metadata[r][key] # lab.metadata[r][key] =>
                      WinsLWW(lab'.metadata[r][key], lab.metadata[r][key])]_vars

\* operation o is a set, its path receives only set operations, and o wins
\* against every other operation of its path
GreatestSetOfItsPath(o) ==
    \A other \in lab.ops :
        other.path = o.path =>
            /\ other.op = "set"
            /\ other # o => WinsLWW(other, o) = FALSE /\ WinsLWW(o, other)

\* one of the paths is a proper prefix of the other
Nested(p, q) ==
    \/ Len(p) < Len(q) /\ SubSeq(q, 1, Len(p)) = p
    \/ Len(q) < Len(p) /\ SubSeq(p, 1, Len(q)) = q

RoomKept(r) ==
    /\ (r \in DOMAIN roomStates') = (r \in DOMAIN roomStates)
    /\ (r \in DOMAIN roomMetadata') = (r \in DOMAIN roomMetadata)
    /\ r \in DOMAIN roomStates => roomStates'[r] = roomStates[r]
    /\ r \in DOMAIN roomMetadata => roomMetadata'[r] = roomMetadata[r]

\* C39: rooms are isolated.  An operation the server receives for room R
\* changes only R's Document and metadata map and is broadcast only to the
\* members of R; a client that is handed an operation message whose room id
\* differs from its own applies nothing, buffers nothing and emits nothing.
C39_RoomsIsolated ==
    [][/\ (step'.who = "server" /\ step'.handler = "operation") =>
             /\ step'.arg \in Rooms
             /\ \A r \in Rooms \ {step'.arg} : RoomKept(r)
             /\ \A m \in Clients :
                   toClient'[m] = IF m \in members[step'.arg]
                                  THEN Append(toClient[m],
                                              OperationMsg(step'.arg, step'.op, 0))
                                  ELSE toClient[m]
       /\ (/\ step'.who \in Clients
           /\ step'.handler = "operation"
           /\ step'.arg # roomId[step'.who]) =>
             /\ doc' = doc
             /\ metadata' = metadata
             /\ offlineQueue' = offlineQueue
             /\ remoteOperationsBuffer' = remoteOperationsBuffer
             /\ dispatched' = dispatched
             /\ toServer' = toServer
             /\ step'.events = <<>>
             /\ step'.sent = <<>>]_vars

\* the server holds different Documents for the two rooms and a paused client
\* of one has just been handed an operation of the other
C39_Witness ==
    /\ step.who \in Clients
    /\ step.handler = "operation"
    /\ step.arg # roomId[step.who]
    /\ ~isLiveMode[step.who]
    /\ StringifyPath(step.op.path) \notin DOMAIN metadata[step.who]
    /\ "r1" \in DOMAIN roomStates /\ "r2" \in DOMAIN roomStates
    /\ roomStates["r1"] # roomStates["r2"]
    /\ members["r1"] # {} /\ members["r2"] # {}

====
